---------------------------- MODULE Spec2Model ----------------------------
(***************************************************************************)
(* Model of the spider_web_addon package: the configuration dataclasses,   *)
(* their persistence as custom properties on the SpiderWeb empty, the      *)
(* randomness ledger, the scene operators (create / update position /      *)
(* update properties) and the seconds-to-frames animation scheduling.      *)
(*                                                                         *)
(* Numbers.  Every float of the program is modelled as an integer count of *)
(* hundredths (1.0 is 100, 0.05 is 5, 0.0 is 0).  Products of a duration   *)
(* and a frame rate are kept as exact fractions, so int() and round() of   *)
(* the program are computed on the exact quotient.  Python's None is the   *)
(* value NoneVal, which no numeric field of a configuration can take.      *)
(***************************************************************************)
EXTENDS Integers, Sequences, FiniteSets, TLC

VARIABLES
    \* ---- the scene (bpy.data) and the operators' outcome ----------------
    objects,    \* bpy.data.objects: the set of object records of the scene
    nextId,     \* the next fresh object identity
    props,      \* custom properties: object id -> (property key -> value)
    keyframes,  \* every keyframe inserted: [obj, path, frame, part], or
                \* [obj, path, frame, value] where the values are followed
    rng,        \* the state of Python's module-level random generator
    last,       \* the last operator run: its inputs, self.* fields, outcome
    nops,       \* number of operator runs so far (bounded by MaxOps)
    render,     \* context.scene.render: [fps, fps_base]
    orig,       \* history: SpiderWeb empty id -> ledger its create_web laid out
    \* ---- store / load on one empty ---------------------------------------
    cfg,        \* the SpiderWebConfig held in memory (or NoConfig)
    led,        \* the ledger held in memory: [edge, interior]
    empty,      \* the custom properties of the empty: key -> value
    out,        \* the SpiderWebConfig last loaded from the empty
    outLed,     \* the ledger last loaded from the empty
    cpc         \* "init" | "stored" | "loaded" | "restored" | "built"

sceneVars ==
    <<objects, nextId, props, keyframes, rng, last, nops, render, orig>>
codecVars == <<cfg, led, empty, out, outLed, cpc>>
vars == <<objects, nextId, props, keyframes, rng, last, nops, render, orig,
          cfg, led, empty, out, outLed, cpc>>

----------------------------------------------------------------------------
(* Bounds of the model.                                                    *)

\* densities explored are MinSpoke..MinSpoke+ExtraSpoke, MinRib..MinRib+ExtraRib
ExtraSpoke == 1
ExtraRib == 1
\* number of states of the modelled random generator
RngStates == 4
\* operator runs per behaviour
MaxOps == 2

\* IntProperty(min=3) of density_spoke and IntProperty(min=1) of density_rib
MinSpoke == 3
MinRib == 1

\* Python's None
NoneVal == -1

IsNone(x) == x = NoneVal

----------------------------------------------------------------------------
(* config.py                                                               *)

\* SpiderShotConfig.__post_init__: only the branch selected by is_tethered
\* gets its None fields replaced
ShotPostInit(c) ==
    IF c.is_tethered
    THEN [c EXCEPT !.tether_width = IF IsNone(@) THEN 2 ELSE @,
                   !.tether_slack = IF IsNone(@) THEN 5 ELSE @]
    ELSE [c EXCEPT !.projectile_size = IF IsNone(@) THEN 2 ELSE @,
                   !.projectile_trail_length = IF IsNone(@) THEN 50 ELSE @]

\* SpiderShotConfig(): the dataclass defaults, then __post_init__
DefaultShotConfig ==
    ShotPostInit([shoot_time |-> 100, is_target_parent |-> FALSE,
                  is_tethered |-> TRUE,
                  tether_width |-> 2, tether_slack |-> 5,
                  projectile_size |-> 10, projectile_trail_length |-> 50])

\* SpiderSpreadConfig()
DefaultSpreadConfig ==
    [radius |-> 100, height |-> 25, spread_time |-> 100,
     density_spoke |-> 5, density_rib |-> 3, web_thickness |-> 1,
     curvature |-> 10, random_spread_edge |-> 10,
     random_spread_interior |-> 5]

\* SpiderWebConfig()
DefaultWebConfig ==
    [spider_shot_config |-> DefaultShotConfig,
     spider_spread_config |-> DefaultSpreadConfig,
     animate_web |-> TRUE, start_frame |-> 1]

\* the configuration variable before any configuration was built
NoConfig == [spider_shot_config |-> DefaultShotConfig,
             spider_spread_config |-> DefaultSpreadConfig,
             animate_web |-> FALSE, start_frame |-> 0]

----------------------------------------------------------------------------
(* properties.py: the panel's property group and to_config                 *)

\* The values the panel (SpiderWebProperties) is explored with.  Every
\* value respects the min/max of its bpy property; a panel property is
\* never None.
PanelValues ==
    [shoot_time : {100, 15},
     is_target_parent : {FALSE},
     is_tethered : BOOLEAN,
     tether_width : {2},
     tether_slack : {0, 5},
     projectile_size : {10},
     projectile_trail_length : {0, 50},
     radius : {100},
     height : {25},
     spread_time : {100},
     density_spoke : MinSpoke .. MinSpoke + ExtraSpoke,
     density_rib : MinRib .. MinRib + ExtraRib,
     web_thickness : {1, 5},
     curvature : {10},
     random_spread_edge : {0, 10},
     random_spread_interior : {5},
     animate_web : BOOLEAN,
     start_frame : {1, 10}]

\* SpiderWebProperties.to_config
to_config(p) ==
    [spider_shot_config |->
        ShotPostInit(
          [shoot_time |-> p.shoot_time,
           is_target_parent |-> p.is_target_parent,
           is_tethered |-> p.is_tethered,
           tether_width |-> IF p.is_tethered THEN p.tether_width ELSE NoneVal,
           tether_slack |-> IF p.is_tethered THEN p.tether_slack ELSE NoneVal,
           projectile_size |->
               IF ~p.is_tethered THEN p.projectile_size ELSE NoneVal,
           projectile_trail_length |->
               IF ~p.is_tethered THEN p.projectile_trail_length ELSE NoneVal]),
     spider_spread_config |->
        [radius |-> p.radius, height |-> p.height,
         spread_time |-> p.spread_time,
         density_spoke |-> p.density_spoke, density_rib |-> p.density_rib,
         web_thickness |-> p.web_thickness, curvature |-> p.curvature,
         random_spread_edge |-> p.random_spread_edge,
         random_spread_interior |-> p.random_spread_interior],
     animate_web |-> p.animate_web,
     start_frame |-> p.start_frame]

----------------------------------------------------------------------------
(* Custom properties of an empty: a finite map from keys to values.  A key *)
(* is the property's name with the indices its f-string appends (-1 where  *)
(* the name has none).                                                     *)

Key(name) == <<name, -1, -1>>
KeyI(name, i) == <<name, i, -1>>
KeyIJ(name, i, j) == <<name, i, j>>

\* an empty without custom properties
NoProps == [k \in {} |-> 0]

\* key in empty
Has(e, k) == k \in DOMAIN e

\* empty[key] = value
SetProp(e, k, v) == [x \in (DOMAIN e) \cup {k} |-> IF x = k THEN v ELSE e[x]]

\* a sequence of assignments empty[key] = value, applied in order
RECURSIVE SetProps(_, _)
SetProps(e, kvs) ==
    IF Len(kvs) = 0 THEN e
    ELSE SetProps(SetProp(e, Head(kvs)[1], Head(kvs)[2]), Tail(kvs))

----------------------------------------------------------------------------
(* Python's random module.  The generator is a deterministic function of   *)
(* its state; the state after construction is arbitrary (Init draws it).   *)
(* Every call of random.uniform or random.choice consumes one state.       *)

\* the generator's state after k further calls
RngAdvance(s, k) == (s + k) % RngStates

\* a draw from [0, 2 * r]
Uniform_doubled(s, r) == r * (s % 3)

\* random.uniform(0, r) in state s: 0, r/2 or r
Uniform(s, r) == (r * (s % 3)) \div 2

\* random.choice([-1, 1]) in state s
Choice(s) == IF s % 2 = 0 THEN -1 ELSE 1

----------------------------------------------------------------------------
(* spider_spread.py: the randomness ledger                                 *)

\* the empty ledger of SpiderSpread.__init__
NoLedger == [edge |-> [i \in {} |-> <<0, 0>>], interior |-> [ij \in {} |-> 0]]

\* Python truth of a dict: non-empty
Truthy(d) == DOMAIN d # {}

\* number of random calls one generation makes for density S x R
DrawsOf(S, R) == 4 * S + 2 * S * R

\* the body of generate_random_values' if: for each spoke two uniform
\* draws then two sign draws; then for each (spoke, rib) one uniform draw and
\* one sign draw
FreshLedger(c, s) ==
    LET S == c.density_spoke
        R == c.density_rib
        at(k) == RngAdvance(s, k)
    IN [edge |->
          [i \in 0 .. S - 1 |->
             << Uniform(at(4 * i), c.random_spread_edge) * Choice(at(4 * i + 2)),
                Uniform(at(4 * i + 1), c.random_spread_edge)
                    * Choice(at(4 * i + 3)) >>],
        interior |->
          [ij \in (0 .. S - 1) \X (0 .. R - 1) |->
             LET k == 4 * S + 2 * (ij[1] * R + ij[2])
             IN Uniform(at(k), c.random_spread_interior) * Choice(at(k + 1))]]

\* generate_random_values without its "if not ... and not ..." test
generate_random_values_always(c, l, s) ==
    [led |-> FreshLedger(c, s),
     rng |-> RngAdvance(s, DrawsOf(c.density_spoke, c.density_rib)),
     drew |-> TRUE]

\* SpiderSpread.generate_random_values: [led, rng] after the call
generate_random_values(c, l, s) ==
    IF ~Truthy(l.edge) /\ ~Truthy(l.interior)
    THEN [led |-> FreshLedger(c, s),
          rng |-> RngAdvance(s, DrawsOf(c.density_spoke, c.density_rib)),
          drew |-> TRUE]
    ELSE [led |-> l, rng |-> s, drew |-> FALSE]

\* set_random_values that keeps nothing
set_random_values_dropped(e, i) == NoLedger

\* SpiderSpread.set_random_values
set_random_values(e, i) ==
    [edge |-> IF Truthy(e) THEN e ELSE NoLedger.edge,
     interior |-> IF Truthy(i) THEN i ELSE NoLedger.interior]

\* SpiderSpread.store_random_values_on_empty
store_random_values_on_empty(e, l) ==
    LET xs == {KeyI("spider_spread_edge_random_x", i) : i \in DOMAIN l.edge}
        ys == {KeyI("spider_spread_edge_random_y", i) : i \in DOMAIN l.edge}
        zs == {KeyIJ("spider_spread_interior_random", ij[1], ij[2]) :
                  ij \in DOMAIN l.interior}
    IN [k \in (DOMAIN e) \cup xs \cup ys \cup zs |->
          IF k \in xs THEN l.edge[k[2]][1]
          ELSE IF k \in ys THEN l.edge[k[2]][2]
          ELSE IF k \in zs THEN l.interior[<<k[2], k[3]>>]
          ELSE e[k]]

\* load_random_values_from_empty with the y offset read from the x key
load_random_values_x_for_y(e, density_spoke, density_rib) ==
    LET x_key(i) == KeyI("spider_spread_edge_random_x", i)
        y_key(i) == KeyI("spider_spread_edge_random_y", i)
        key(i, j) == KeyIJ("spider_spread_interior_random", i, j)
    IN [edge |->
          [i \in {i \in 0 .. density_spoke - 1 :
                     Has(e, x_key(i)) /\ Has(e, y_key(i))} |->
             <<e[x_key(i)], e[x_key(i)]>>],
        interior |->
          [ij \in {ij \in (0 .. density_spoke - 1) \X (0 .. density_rib - 1) :
                      Has(e, key(ij[1], ij[2]))} |->
             e[key(ij[1], ij[2])]]]

\* SpiderSpread.load_random_values_from_empty
load_random_values_from_empty(e, density_spoke, density_rib) ==
    LET x_key(i) == KeyI("spider_spread_edge_random_x", i)
        y_key(i) == KeyI("spider_spread_edge_random_y", i)
        key(i, j) == KeyIJ("spider_spread_interior_random", i, j)
    IN [edge |->
          [i \in {i \in 0 .. density_spoke - 1 :
                     Has(e, x_key(i)) /\ Has(e, y_key(i))} |->
             <<e[x_key(i)], e[y_key(i)]>>],
        interior |->
          [ij \in {ij \in (0 .. density_spoke - 1) \X (0 .. density_rib - 1) :
                      Has(e, key(ij[1], ij[2]))} |->
             e[key(ij[1], ij[2])]]]

----------------------------------------------------------------------------
(* Persistence of the configuration                                        *)

\* SpiderShot.store_config_on_empty
SpiderShot_store_config_on_empty(e, c) ==
    SetProps(e, <<
      <<Key("spider_shot_shoot_time"), c.shoot_time>>,
      <<Key("spider_shot_is_tethered"), c.is_tethered>>,
      <<Key("spider_shot_tether_width"),
        IF ~IsNone(c.tether_width) THEN c.tether_width ELSE 10>>,
      <<Key("spider_shot_tether_slack"),
        IF ~IsNone(c.tether_slack) THEN c.tether_slack ELSE 5>>,
      <<Key("spider_shot_projectile_size"),
        IF ~IsNone(c.projectile_size) THEN c.projectile_size ELSE 50>>,
      <<Key("spider_shot_projectile_trail_length"),
        IF ~IsNone(c.projectile_trail_length)
        THEN c.projectile_trail_length ELSE 100>> >>)

\* SpiderSpread.store_config_on_empty (web_thickness is not among the
\* properties it writes), ending with store_random_values_on_empty
SpiderSpread_store_config_on_empty(e, c, l) ==
    store_random_values_on_empty(
      SetProps(e, <<
        <<Key("spider_spread_radius"), c.radius>>,
        <<Key("spider_spread_height"), c.height>>,
        <<Key("spider_spread_spread_time"), c.spread_time>>,
        <<Key("spider_spread_density_spoke"), c.density_spoke>>,
        <<Key("spider_spread_density_rib"), c.density_rib>>,
        <<Key("spider_spread_curvature"), c.curvature>>,
        <<Key("spider_spread_random_spread_edge"), c.random_spread_edge>>,
        <<Key("spider_spread_random_spread_interior"),
          c.random_spread_interior>> >>),
      l)

\* SpiderWeb.store_config_on_empty
SpiderWeb_store_config_on_empty(e, c) ==
    SetProps(e, <<
      <<Key("spider_web_animate_web"), c.animate_web>>,
      <<Key("spider_web_start_frame"), c.start_frame>> >>)

\* the three stores that end create_web and both update operators
StoreAll(e, c, l) ==
    SpiderWeb_store_config_on_empty(
      SpiderSpread_store_config_on_empty(
        SpiderShot_store_config_on_empty(e, c.spider_shot_config),
        c.spider_spread_config, l),
      c)

\* one field of a load: config.f = empty[key] if key in empty
Loaded(e, name, dflt) == IF Has(e, Key(name)) THEN e[Key(name)] ELSE dflt

\* one optional field of SpiderShot.load_config_from_empty:
\* empty[key] if empty[key] != 0.0 else None
LoadedOpt(e, name, dflt) ==
    IF Has(e, Key(name))
    THEN (IF e[Key(name)] # 0 THEN e[Key(name)] ELSE NoneVal)
    ELSE dflt

\* SpiderShot.load_config_from_empty
SpiderShot_load_config_from_empty(e) ==
    LET d == DefaultShotConfig
    IN [shoot_time |-> Loaded(e, "spider_shot_shoot_time", d.shoot_time),
        is_target_parent |-> d.is_target_parent,
        is_tethered |-> Loaded(e, "spider_shot_is_tethered", d.is_tethered),
        tether_width |->
            LoadedOpt(e, "spider_shot_tether_width", d.tether_width),
        tether_slack |->
            LoadedOpt(e, "spider_shot_tether_slack", d.tether_slack),
        projectile_size |->
            LoadedOpt(e, "spider_shot_projectile_size", d.projectile_size),
        projectile_trail_length |->
            LoadedOpt(e, "spider_shot_projectile_trail_length",
                      d.projectile_trail_length)]

\* SpiderSpread.load_config_from_empty
SpiderSpread_load_config_from_empty(e) ==
    LET d == DefaultSpreadConfig
    IN [radius |-> Loaded(e, "spider_spread_radius", d.radius),
        height |-> Loaded(e, "spider_spread_height", d.height),
        spread_time |-> Loaded(e, "spider_spread_spread_time", d.spread_time),
        density_spoke |->
            Loaded(e, "spider_spread_density_spoke", d.density_spoke),
        density_rib |-> Loaded(e, "spider_spread_density_rib", d.density_rib),
        web_thickness |-> d.web_thickness,
        curvature |-> Loaded(e, "spider_spread_curvature", d.curvature),
        random_spread_edge |->
            Loaded(e, "spider_spread_random_spread_edge", d.random_spread_edge),
        random_spread_interior |->
            Loaded(e, "spider_spread_random_spread_interior",
                   d.random_spread_interior)]

\* load_original_config_from_web of both update operators
load_original_config_from_web(e) ==
    [spider_shot_config |-> SpiderShot_load_config_from_empty(e),
     spider_spread_config |-> SpiderSpread_load_config_from_empty(e),
     animate_web |->
         Loaded(e, "spider_web_animate_web", DefaultWebConfig.animate_web),
     start_frame |->
         Loaded(e, "spider_web_start_frame", DefaultWebConfig.start_frame)]

----------------------------------------------------------------------------
(* The scene: objects, their names, and the frame arithmetic               *)

\* An object's name is the sequence of the words it starts with
\* ("WebSpoke_3" is <<"Web", "Spoke">>); the indices an f-string appends, and
\* the ".001" Blender adds to a repeated name, are kept apart in idx: no
\* startswith test of the program looks that far.
StartsWith(name, prefix) ==
    /\ Len(prefix) <= Len(name)
    /\ SubSeq(name, 1, Len(prefix)) = prefix

NoIdx == <<-1, -1>>

\* one object of bpy.data.objects; web is the SpiderWeb empty it was built
\* for (0 for that empty itself), a ghost field the program does not keep;
\* jitter is the part of an anchor's position that comes from the ledger
\* an object created without its parent
Obj_unparented(id, type, name, idx, parent, web, hide_select) ==
    [id |-> id, type |-> type, name |-> name, idx |-> idx,
     parent |-> 0, web |-> web, hide_select |-> hide_select,
     jitter |-> <<0, 0>>]

Obj(id, type, name, idx, parent, web, hide_select) ==
    [id |-> id, type |-> type, name |-> name, idx |-> idx,
     parent |-> parent, web |-> web, hide_select |-> hide_select,
     jitter |-> <<0, 0>>]

\* bpy.data.objects.remove(obj, do_unlink=True) for every obj of ids: the
\* objects go, their children stay with no parent
RemoveObjects(objs, ids) ==
    {IF o.parent \in ids THEN [o EXCEPT !.parent = 0] ELSE o :
        o \in {x \in objs : x.id \notin ids}}

\* the conversion rounding to the nearest frame instead
DurationFrames_rounded(seconds, r) ==
    (2 * seconds * r.fps + 100 * r.fps_base) \div (200 * r.fps_base)

\* int(seconds * (fps / fps_base)) for seconds given in hundredths
DurationFrames(seconds, r) == (seconds * r.fps) \div (100 * r.fps_base)

\* the scene variables of a specification that does not use the scene
SceneIdle ==
    /\ objects = {} /\ nextId = 1 /\ props = NoProps /\ keyframes = {}
    /\ rng = 0 /\ nops = 0 /\ render = [fps |-> 24, fps_base |-> 1]
    /\ last = [op |-> "none"] /\ orig = NoProps

----------------------------------------------------------------------------
(* One operator call.  Its steps thread a record st: the scene as built so *)
(* far, the fields of the SpiderWeb / SpiderSpread / SpiderShot instances  *)
(* the call uses, and whether an exception is propagating (raised).  A     *)
(* step of a call whose exception is propagating does nothing.             *)

\* the call's state on entry; l is SpiderSpread's ledger before create_spread
Start(l) ==
    [objects |-> objects, nextId |-> nextId, props |-> props,
     keyframes |-> keyframes, rng |-> rng, raised |-> FALSE,
     led |-> l, drew |-> FALSE, center |-> 0, ribs |-> {}, shot |-> 0,
     web_spokes_ribs |-> << >>]

Raise(st) == [st EXCEPT !.raised = TRUE]

\* utils.create_control_point, and the id of the empty it returns
create_control_point(st, name, idx, parent, web, hide_select) ==
    [st EXCEPT
       !.objects = @ \cup {Obj(st.nextId, "EMPTY", name, idx, parent, web,
                               hide_select)},
       !.nextId = @ + 1]

\* the jitter create_spread adds to Spoke(i): edge_random_offsets[i] if i is
\* a key of the ledger, nothing otherwise
EdgeJitter(l, i) == IF i \in DOMAIN l.edge THEN l.edge[i] ELSE <<0, 0>>

\* the jitter create_spread adds to Rib(i, j): interior_random_offsets[(i, j-1)]
InteriorJitter(l, i, j) ==
    IF <<i, j - 1>> \in DOMAIN l.interior THEN l.interior[<<i, j - 1>>] ELSE 0

\* the anchors of one layout: name, indices and the jitter of each
SpokeOf(o) == o.type = "EMPTY" /\ o.name = <<"Web", "Spoke">>
RibOf(o) == o.type = "EMPTY" /\ o.name = <<"Web", "Rib">>
CenterOf(o) == o.type = "EMPTY" /\ o.name = <<"Web", "Center">>

\* SpiderSpread.create_spread: generate_random_values, then WebCenter under
\* the target, WebSpoke_i under the center and WebRib_i-j under spoke i, in
\* the order the loops create them
create_spread(st, c, target_empty, web) ==
    IF st.raised THEN st
    ELSE
      LET g == generate_random_values(c, st.led, st.rng)
          n == st.nextId
          S == c.density_spoke
          R == c.density_rib
          spoke(i) == n + 1 + i * (R + 1)
          center == Obj(n, "EMPTY", <<"Web", "Center">>, NoIdx, target_empty,
                        web, FALSE)
          spokes == {[Obj(spoke(i), "EMPTY", <<"Web", "Spoke">>, <<i, -1>>, n,
                          web, FALSE)
                        EXCEPT !.jitter = EdgeJitter(g.led, i)] :
                       i \in 0 .. S - 1}
          rib_empties ==
              {[Obj(spoke(ij[1]) + ij[2], "EMPTY", <<"Web", "Rib">>, ij,
                    spoke(ij[1]), web, FALSE)
                  EXCEPT !.jitter = <<InteriorJitter(g.led, ij[1], ij[2]), 0>>] :
                 ij \in (0 .. S - 1) \X (1 .. R)}
      IN IF S = 0 \/ R = 0
         THEN \* (2 * math.pi) / density_spoke or radius / density_rib
              \* raises ZeroDivisionError, the center already created
              [st EXCEPT
                 !.led = g.led, !.rng = g.rng, !.drew = g.drew,
                 !.center = n,
                 !.objects = @ \cup {center},
                 !.nextId = n + 1,
                 !.raised = TRUE]
         ELSE [st EXCEPT
                 !.led = g.led, !.rng = g.rng, !.drew = g.drew,
                 !.center = n,
                 !.ribs = {o.id : o \in rib_empties},
                 !.web_spokes_ribs =
                     [i \in 1 .. S |->
                        [spoke |-> spoke(i - 1),
                         ribs |-> [j \in 1 .. R |-> spoke(i - 1) + j]]],
                 !.objects = @ \cup {center} \cup spokes \cup rib_empties,
                 !.nextId = n + 1 + S * (R + 1)]

\* SpiderSpread.create_mesh and create_rib_meshes: one mesh object
\* "WebSpoke_i" per spoke, then one "WebRib_Level<l>_Seg<i>" per rib level
\* and spoke, all under the web center
create_mesh(st, c, web) ==
    IF st.raised THEN st
    ELSE
      LET n == st.nextId
          S == c.density_spoke
          R == c.density_rib
          spoke_meshes ==
              {Obj(n + i, "MESH", <<"Web", "Spoke">>, <<i, -1>>, st.center,
                   web, FALSE) : i \in 0 .. S - 1}
          rib_meshes ==
              {Obj(n + S + li[1] * S + li[2], "MESH",
                   <<"Web", "Rib", "Level">>, li, st.center, web, FALSE) :
                 li \in (0 .. R - 1) \X (0 .. S - 1)}
      IN [st EXCEPT !.objects = @ \cup spoke_meshes \cup rib_meshes,
                    !.nextId = n + S + R * S]

\* parameters after self of SpiderShot.create_shot and SpiderShot.animate_shot
create_shot_params == 4
animate_shot_params == 0

\* SpiderShot.create_tether_mesh: the arithmetic on tether_slack and
\* tether_width comes before the object is created
create_tether_mesh(st, c, origin_empty, web) ==
    IF IsNone(c.tether_slack) \/ IsNone(c.tether_width) THEN Raise(st)
    ELSE [st EXCEPT
            !.objects = @ \cup {Obj(st.nextId, "CURVE", <<"Web", "Tether">>,
                                    NoIdx, origin_empty, web, FALSE)},
            !.shot = st.nextId,
            !.nextId = @ + 1]

\* SpiderShot.create_shot_mesh: the sphere "WebShot" is created, parented,
\* and then scaled by projectile_size
create_shot_mesh(st, c, origin_empty, web) ==
    LET made == [st EXCEPT
                   !.objects = @ \cup {Obj(st.nextId, "MESH", <<"Web", "Shot">>,
                                           NoIdx, origin_empty, web, FALSE)},
                   !.shot = st.nextId,
                   !.nextId = @ + 1]
    IN IF IsNone(c.projectile_size) THEN Raise(made) ELSE made

\* a call of SpiderShot.create_shot with nargs arguments after self
create_shot(st, c, nargs, origin_empty, web) ==
    IF st.raised THEN st
    ELSE IF nargs # create_shot_params THEN Raise(st)
    ELSE IF c.is_tethered THEN create_tether_mesh(st, c, origin_empty, web)
    ELSE create_shot_mesh(st, c, origin_empty, web)

\* a call of SpiderShot.animate_shot with nargs arguments after self; the
\* method's body is pass
animate_shot(st, nargs) ==
    IF st.raised THEN st
    ELSE IF nargs # animate_shot_params THEN Raise(st)
    ELSE st

\* SpiderSpread.animate_spread: the sphere "WebSpreadSphere" under the
\* center, and a keyframe at the first and at the last frame of the span for
\* the center, the sphere and every rib of this layout
animate_spread(st, starting_frame, frame_length_seconds, web) ==
    IF st.raised THEN st
    ELSE
      LET end_frame ==
              starting_frame + DurationFrames(frame_length_seconds, render)
          sphere == st.nextId
          keys(ob, path) ==
              {[obj |-> ob, path |-> path, frame |-> f, part |-> "spread"] :
                 f \in {starting_frame, end_frame}}
      IN [st EXCEPT
            !.objects = @ \cup {Obj(sphere, "MESH",
                                    <<"Web", "Spread", "Sphere">>, NoIdx,
                                    st.center, web, FALSE)},
            !.nextId = @ + 1,
            !.keyframes = @ \cup keys(st.center, "location")
                            \cup keys(sphere, "scale")
                            \cup UNION {keys(r, "location") : r \in st.ribs}]

\* "if config.animate_web:" around animate_shot and animate_spread, the
\* spread starting start_frame + int(shoot_time * fps / fps_base)
animate(st, c, nargs, web) ==
    IF ~c.animate_web THEN st
    ELSE animate_spread(
           animate_shot(st, nargs),
           c.start_frame
             + DurationFrames(c.spider_shot_config.shoot_time, render),
           c.spider_spread_config.spread_time, web)

\* the three store_config_on_empty calls on the SpiderWeb empty
store(st, c, root) ==
    IF st.raised THEN st
    ELSE [st EXCEPT !.props =
            SetProp(@, root,
                    StoreAll(IF root \in DOMAIN @ THEN @[root] ELSE NoProps,
                             c, st.led))]

----------------------------------------------------------------------------
(* operators.py                                                            *)

IsRoot(o) == o.type = "EMPTY" /\ StartsWith(o.name, <<"Spider", "Web">>)
IsOrigin(o) == o.type = "EMPTY" /\ StartsWith(o.name, <<"Web", "Origin">>)
IsTarget(o) == o.type = "EMPTY" /\ StartsWith(o.name, <<"Web", "Target">>)
IsShotName(o) ==
    \/ StartsWith(o.name, <<"Spider", "Tether">>)
    \/ StartsWith(o.name, <<"Spider", "Projectile">>)
    \/ StartsWith(o.name, <<"Spider", "Projectile", "Trail">>)

\* what a loop "x = obj for each matching obj" can leave in x: any of the
\* matching objects (the order of the collection decides), or 0 (None)
Picked(candidates) == IF candidates = {} THEN {0} ELSE {o.id : o \in candidates}

\* find_web_components: every result the two loops can produce for the
\* selection sel, over the orders in which Blender may list the objects.
\* The search of bpy.data.objects runs only if the selection did not give
\* all of SpiderWeb, WebOrigin and WebTarget.
find_web_components(sel) ==
    LET sel_empties == {o \in sel : o.type = "EMPTY" /\ ~IsRoot(o)
                          /\ ~IsOrigin(o) /\ ~IsTarget(o)
                          /\ StartsWith(o.name, <<"Web">>)}
        sel_curves == {o \in sel : o.type = "MESH"
                          /\ StartsWith(o.name, <<"Web">>)}
        sel_shots == {o \in sel : o.type = "MESH"
                          /\ ~StartsWith(o.name, <<"Web">>) /\ IsShotName(o)}
        first ==
            [root : Picked({o \in sel : IsRoot(o)}),
             origin : Picked({o \in sel : IsOrigin(o)}),
             target : Picked({o \in sel : IsTarget(o)})]
        complete(f) == f.root # 0 /\ f.origin # 0 /\ f.target # 0
        second(f) ==
            [root : IF f.root # 0 THEN {f.root}
                    ELSE Picked({o \in objects : IsRoot(o)}),
             origin : IF f.origin # 0 THEN {f.origin}
                      ELSE Picked({o \in objects : IsOrigin(o)}),
             target : IF f.target # 0 THEN {f.target}
                      ELSE Picked({o \in objects : IsTarget(o)})]
        \* the empties the second loop appends: every "Web..." empty it
        \* does not assign to origin_empty or target_empty
        result(f, all, assigned) ==
            [spider_web_empty |-> f.root, origin_empty |-> f.origin,
             target_empty |-> f.target,
             web_empties |->
                {o.id : o \in sel_empties} \cup
                (IF all THEN {o.id : o \in
                                {x \in objects : x.type = "EMPTY" /\ ~IsRoot(x)
                                    /\ StartsWith(x.name, <<"Web">>)
                                    /\ x.id \notin assigned}}
                 ELSE {}),
             web_curves |->
                {o.id : o \in sel_curves} \cup
                (IF all THEN {o.id : o \in
                                {x \in objects : x.type = "MESH"
                                    /\ StartsWith(x.name, <<"Web">>)}}
                 ELSE {}),
             shot_objects |->
                {o.id : o \in sel_shots} \cup
                (IF all THEN {o.id : o \in
                                {x \in objects : x.type = "MESH"
                                    /\ ~StartsWith(x.name, <<"Web">>)
                                    /\ IsShotName(x)}}
                 ELSE {})]
    IN UNION {IF complete(f) THEN {result(f, FALSE, {})}
              ELSE {result(g, TRUE,
                           (IF f.origin = 0 THEN {g.origin} ELSE {})
                             \cup (IF f.target = 0 THEN {g.target} ELSE {})) :
                      g \in second(f)} : f \in first}

\* cleanup_web_components: the curves, the shot objects, and the empties
\* whose name starts with none of SpiderWeb, WebOrigin, WebTarget
cleanup_web_components(st, f) ==
    LET empties_to_delete ==
            {o.id : o \in {x \in st.objects : x.id \in f.web_empties
                              /\ ~StartsWith(x.name, <<"Spider", "Web">>)
                              /\ ~StartsWith(x.name, <<"Web", "Origin">>)
                              /\ ~StartsWith(x.name, <<"Web", "Target">>)}}
    IN [st EXCEPT !.objects =
          RemoveObjects(@, f.web_curves \cup f.shot_objects
                             \cup empties_to_delete)]

\* the comparison without its density_rib conjunct
preserve_random_values_no_rib(old, new) ==
    /\ old.random_spread_edge = new.random_spread_edge
    /\ old.random_spread_interior = new.random_spread_interior
    /\ old.density_spoke = new.density_spoke

\* the comparison of update_spider_web that decides whether the stored
\* random values are kept
preserve_random_values(old, new) ==
    /\ old.random_spread_edge = new.random_spread_edge
    /\ old.random_spread_interior = new.random_spread_interior
    /\ old.density_spoke = new.density_spoke
    /\ old.density_rib = new.density_rib

----------------------------------------------------------------------------
(* Spec: the three operators of the panel acting on one scene              *)

\* the panel settings the scene is explored with: the reference settings
\* and every setting that differs from them in one of the properties the
\* operators branch on or size the layout by
BasePanel ==
    [shoot_time |-> 100, is_target_parent |-> FALSE, is_tethered |-> TRUE,
     tether_width |-> 2, tether_slack |-> 5, projectile_size |-> 10,
     projectile_trail_length |-> 50, radius |-> 100, height |-> 25,
     spread_time |-> 100, density_spoke |-> MinSpoke, density_rib |-> MinRib,
     web_thickness |-> 1, curvature |-> 10, random_spread_edge |-> 10,
     random_spread_interior |-> 5, animate_web |-> FALSE, start_frame |-> 1]

SceneFields ==
    {"is_tethered", "tether_slack", "density_spoke", "density_rib",
     "random_spread_edge", "animate_web"}

ScenePanels ==
    {p \in PanelValues :
        /\ \A f \in DOMAIN p \ SceneFields : p[f] = BasePanel[f]
        /\ Cardinality({f \in SceneFields : p[f] # BasePanel[f]}) <= 1}

\* the custom properties of object id
PropsOf(id) == IF id \in DOMAIN props THEN props[id] ELSE NoProps

\* context.selected_objects: nothing, every selectable object, or the
\* selectable ones among one web's SpiderWeb, WebOrigin and WebTarget
Selections ==
    LET selectable == {o \in objects : ~o.hide_select}
    IN {{}, selectable} \cup
       {{o \in selectable : (o.id = r.id /\ IsRoot(o))
                              \/ (o.web = r.id /\ (IsOrigin(o) \/ IsTarget(o)))} :
          r \in {x \in objects : IsRoot(x)}}

\* what find_web_components can return in this scene, over the selections
Found == UNION {find_web_components(sel) : sel \in Selections}

NoLast ==
    [op |-> "none", result |-> "none", root |-> 0, origin |-> 0, target |-> 0,
     config |-> NoConfig, old_config |-> NoConfig, persisted |-> NoLedger,
     given |-> NoLedger, led |-> NoLedger, drew |-> FALSE, before |-> {},
     changed |-> {}, center |-> 0]

\* a call that reports FINISHED whatever happened
Commit_finished(st, op, f, config, old_config, persisted, given) ==
    /\ objects' = st.objects
    /\ nextId' = st.nextId
    /\ props' = st.props
    /\ keyframes' = st.keyframes
    /\ rng' = st.rng
    /\ nops' = nops + 1
    /\ last' = [op |-> op, result |-> "FINISHED",
                root |-> f.spider_web_empty, origin |-> f.origin_empty,
                target |-> f.target_empty,
                config |-> config, old_config |-> old_config,
                persisted |-> persisted, given |-> given,
                led |-> IF st.center # 0 THEN st.led ELSE NoLedger,
                drew |-> st.drew, before |-> {o.id : o \in objects},
                changed |-> objects \ st.objects, center |-> st.center]
    /\ UNCHANGED <<render, codecVars>>

\* the scene after the call, and what the call was; changed is the objects
\* of the scene before the call that it removed or altered
Commit(st, op, f, config, old_config, persisted, given) ==
    /\ objects' = st.objects
    /\ nextId' = st.nextId
    /\ props' = st.props
    /\ keyframes' = st.keyframes
    /\ rng' = st.rng
    /\ nops' = nops + 1
    /\ last' = [op |-> op,
                result |-> IF st.raised THEN "CANCELLED" ELSE "FINISHED",
                root |-> f.spider_web_empty, origin |-> f.origin_empty,
                target |-> f.target_empty,
                config |-> config, old_config |-> old_config,
                persisted |-> persisted, given |-> given,
                led |-> IF st.center # 0 THEN st.led ELSE NoLedger,
                drew |-> st.drew, before |-> {o.id : o \in objects},
                changed |-> objects \ st.objects, center |-> st.center]
    /\ UNCHANGED <<render, codecVars>>

\* an early return that reported success
NotFound_finished(op, f) ==
    /\ nops' = nops + 1
    /\ last' = [NoLast EXCEPT !.op = op, !.result = "FINISHED",
                              !.root = f.spider_web_empty,
                              !.origin = f.origin_empty,
                              !.target = f.target_empty,
                              !.before = {o.id : o \in objects}]
    /\ UNCHANGED <<objects, nextId, props, keyframes, rng, render, orig,
                   codecVars>>

\* the early return of both update operators: an ERROR report and CANCELLED
NotFound(op, f) ==
    /\ nops' = nops + 1
    /\ last' = [NoLast EXCEPT !.op = op, !.result = "CANCELLED",
                              !.root = f.spider_web_empty,
                              !.origin = f.origin_empty,
                              !.target = f.target_empty,
                              !.before = {o.id : o \in objects}]
    /\ UNCHANGED <<objects, nextId, props, keyframes, rng, render, orig,
                   codecVars>>

\* SpiderWeb.create_web in the scene st: the SpiderWeb, WebOrigin and
\* WebTarget empties get the ids st.nextId, + 1 and + 2
create_web(st, config) ==
    LET root == st.nextId
        s1 == create_control_point(st, <<"Spider", "Web">>, NoIdx, 0, 0, TRUE)
        s2 == create_control_point(s1, <<"Web", "Origin">>, NoIdx, root,
                                   root, FALSE)
        s3 == create_control_point(s2, <<"Web", "Target">>, NoIdx, root,
                                   root, FALSE)
        s4 == create_spread(s3, config.spider_spread_config, root + 2, root)
        s5 == create_mesh(s4, config.spider_spread_config, root)
        s6 == create_shot(s5, config.spider_shot_config, 4, root + 1, root)
        s7 == animate(s6, config, 4, root)
    IN store(s7, config, root)

\* MESH_OT_create_spider_web_from_coords.execute: SpiderWeb.create_web with
\* the panel's configuration, any exception reported as CANCELLED
CreateWeb ==
    /\ nops < MaxOps
    /\ \E p \in ScenePanels :
         LET config == to_config(p)
             root == nextId
             f == [spider_web_empty |-> root, origin_empty |-> root + 1,
                   target_empty |-> root + 2]
             st == create_web(Start(NoLedger), config)
         IN /\ Commit(st, "create", f, config, NoConfig, NoLedger, NoLedger)
            /\ orig' = SetProp(orig, root, st.led)

\* MESH_OT_update_spider_web_position.execute
UpdatePosition ==
    /\ nops < MaxOps
    /\ \E f \in Found :
         IF f.spider_web_empty = 0 \/ f.origin_empty = 0 \/ f.target_empty = 0
         THEN NotFound("update_position", f)
         ELSE
           LET root == f.spider_web_empty
               original_config == load_original_config_from_web(PropsOf(root))
               existing ==
                   load_random_values_from_empty(
                     PropsOf(root),
                     original_config.spider_spread_config.density_spoke,
                     original_config.spider_spread_config.density_rib)
               given == set_random_values(existing.edge, existing.interior)
               s1 == cleanup_web_components(Start(given), f)
               s2 == create_spread(s1, original_config.spider_spread_config,
                                   f.target_empty, root)
               s3 == create_mesh(s2, original_config.spider_spread_config,
                                 root)
               s4 == create_shot(
                       s3, original_config.spider_shot_config,
                       IF original_config.spider_shot_config.is_tethered
                       THEN 4 ELSE 3,
                       f.origin_empty, root)
               s5 == animate(s4, original_config, 4, root)
               s6 == store(s5, original_config, root)
           IN /\ Commit(s6, "update_position", f, original_config,
                        original_config, existing, given)
              /\ UNCHANGED orig

\* MESH_OT_update_spider_web_selected.execute
UpdateSelected ==
    /\ nops < MaxOps
    /\ \E f \in Found :
         IF f.spider_web_empty = 0 \/ f.origin_empty = 0 \/ f.target_empty = 0
         THEN NotFound("update_selected", f)
         ELSE \E p \in ScenePanels :
           LET root == f.spider_web_empty
               new_config == to_config(p)
               old_config == load_original_config_from_web(PropsOf(root))
               preserve ==
                   preserve_random_values(old_config.spider_spread_config,
                                          new_config.spider_spread_config)
               stored ==
                   load_random_values_from_empty(
                     PropsOf(root),
                     old_config.spider_spread_config.density_spoke,
                     old_config.spider_spread_config.density_rib)
               existing == IF preserve THEN stored ELSE NoLedger
               given ==
                   IF preserve /\ Truthy(existing.edge)
                               /\ Truthy(existing.interior)
                   THEN set_random_values(existing.edge, existing.interior)
                   ELSE NoLedger
               s1 == cleanup_web_components(Start(given), f)
               s2 == create_spread(s1, new_config.spider_spread_config,
                                   f.target_empty, root)
               s3 == create_mesh(s2, new_config.spider_spread_config, root)
               s4 == create_shot(
                       s3, new_config.spider_shot_config,
                       IF new_config.spider_shot_config.is_tethered
                       THEN 4 ELSE 3,
                       f.origin_empty, root)
               s5 == animate(s4, new_config, 4, root)
               s6 == store(s5, new_config, root)
           IN /\ Commit(s6, "update_selected", f, new_config, old_config,
                        stored, given)
              /\ orig' = SetProp(orig, root, s2.led)

\* the user makes a SpiderWeb empty selectable again (create_web sets
\* hide_select on it; the outliner clears it), explored while an operator
\* call can still follow
EnableSelect ==
    /\ nops < MaxOps
    /\ \E o \in objects :
         /\ IsRoot(o) /\ o.hide_select
         /\ objects' = (objects \ {o}) \cup {[o EXCEPT !.hide_select = FALSE]}
    /\ UNCHANGED <<nextId, props, keyframes, rng, last, nops, render, orig,
                   codecVars>>

\* the generator states the scene starts from: `import random` seeds the
\* generator from the system, so any state is possible; two are explored
Seeds == {0, RngStates - 1}

CodecIdle ==
    /\ cfg = NoConfig /\ led = NoLedger /\ empty = NoProps
    /\ out = NoConfig /\ outLed = NoLedger /\ cpc = "init"

Init ==
    /\ objects = {} /\ nextId = 1 /\ props = NoProps /\ keyframes = {}
    /\ rng \in Seeds
    /\ nops = 0
    /\ render = [fps |-> 24, fps_base |-> 1]
    /\ last = NoLast
    /\ orig = NoProps
    /\ CodecIdle

Next == CreateWeb \/ UpdatePosition \/ UpdateSelected \/ EnableSelect

Spec == Init /\ [][Next]_vars

\* PairSpec: the same operators in a scene that already holds one web,
\* generated with the reference settings, so that a second web and a call
\* on either of them fit into MaxOps calls
PairInit ==
    /\ \E seed \in Seeds :
         LET st == create_web([objects |-> {}, nextId |-> 1, props |-> NoProps,
                               keyframes |-> {}, rng |-> seed,
                               raised |-> FALSE, led |-> NoLedger,
                               drew |-> FALSE, center |-> 0, ribs |-> {},
                               shot |-> 0, web_spokes_ribs |-> << >>],
                              to_config(BasePanel))
         IN /\ objects = st.objects /\ nextId = st.nextId
            /\ props = st.props /\ keyframes = st.keyframes
            /\ rng = st.rng
            /\ orig = SetProp(NoProps, 1, st.led)
    /\ nops = 0
    /\ render = [fps |-> 24, fps_base |-> 1]
    /\ last = NoLast
    /\ CodecIdle

PairSpec == PairInit /\ [][Next]_vars

----------------------------------------------------------------------------
(* AnimSpec: the animation methods of TetherShot, ProjectileShot and       *)
(* SpiderSpread, each called on its own object under several frame rates   *)

\* tether_shot.py / projectile_shot.py: the 0.4 s of the effects that
\* follow the shot, in hundredths of a second
slack_duration_seconds == 40
fade_duration == 40

Key_(ob, path, frame, part) ==
    [obj |-> ob, path |-> path, frame |-> frame, part |-> part]

\* obj.animation_data_clear()
animation_data_clear(kf, ob) == {k \in kf : k.obj # ob}

\* TetherShot._animate_tether_slack
animate_tether_slack(kf, tether_obj, end_frame, r) ==
    LET slack_frames == DurationFrames(slack_duration_seconds, r)
        slack_end_frame == end_frame + slack_frames
    IN kf \cup {Key_(tether_obj, "rotation_euler", f, "effect") :
                  f \in {end_frame, end_frame + slack_frames \div 2,
                         slack_end_frame}}

\* TetherShot.animate_tether (animate_shot returns it)
animate_tether(kf, tether_obj, c, start_frame, r) ==
    LET end_frame == start_frame + DurationFrames(c.shoot_time, r)
        grown == animation_data_clear(kf, tether_obj)
                   \cup {Key_(tether_obj, "scale", f, "shot") :
                           f \in {start_frame, end_frame}}
    IN IF ~IsNone(c.tether_slack) /\ c.tether_slack > 0
       THEN animate_tether_slack(grown, tether_obj, end_frame, r)
       ELSE grown

\* ProjectileShot._animate_projectile_trail
animate_projectile_trail(kf, trail_obj, start_frame, end_frame, r) ==
    LET fade_frame == end_frame + DurationFrames(fade_duration, r)
        frame(i) == start_frame + ((end_frame - start_frame) * (i + 1)) \div 6
    IN animation_data_clear(kf, trail_obj)
         \cup {Key_(trail_obj, "scale", start_frame, "trail")}
         \cup {Key_(trail_obj, path, frame(i), "trail") :
                 path \in {"location", "scale"}, i \in 0 .. 4}
         \cup {Key_(trail_obj, "scale", fade_frame, "effect")}

\* ProjectileShot.animate_shot; trail_mesh is 0 when no trail was created
projectile_animate_shot(kf, shot_mesh, trail_mesh, c, start_frame, r) ==
    LET end_frame == start_frame + DurationFrames(c.shoot_time, r)
        moved == animation_data_clear(kf, shot_mesh)
                   \cup {Key_(shot_mesh, "location", f, "shot") :
                           f \in {start_frame, end_frame}}
    IN IF trail_mesh # 0
       THEN animate_projectile_trail(moved, trail_mesh, start_frame,
                                     end_frame, r)
       ELSE moved

\* the durations (hundredths of a second), start frames and render
\* settings the methods are called with
Seconds == {15, 40, 100, 110}
StartFrames == {1, 10}
RenderSettings == {[fps |-> f, fps_base |-> b] : f \in {24, 30}, b \in {1, 2}}

\* the objects the methods animate: a "SpiderTether", a "SpiderProjectile"
\* with and one without "SpiderProjectileTrail", a web center and one rib
TetherId == 1
ProjectileId == 2
TrailId == 3
BareProjectileId == 4
CenterId == 5
RibId == 6

AnimScene ==
    {Obj(TetherId, "MESH", <<"Spider", "Tether">>, NoIdx, 0, 0, FALSE),
     Obj(ProjectileId, "MESH", <<"Spider", "Projectile">>, NoIdx, 0, 0, FALSE),
     Obj(TrailId, "MESH", <<"Spider", "Projectile", "Trail">>, NoIdx, 0, 0,
         FALSE),
     Obj(BareProjectileId, "MESH", <<"Spider", "Projectile">>, NoIdx, 0, 0,
         FALSE),
     Obj(CenterId, "EMPTY", <<"Web", "Center">>, NoIdx, 0, 0, FALSE),
     Obj(RibId, "EMPTY", <<"Web", "Rib">>, <<0, 1>>, CenterId, 0, FALSE)}

\* what the last call was, and the keyframes it inserted
AnimLast(op, ob, effect_obj, seconds, start_frame, inserted) ==
    [op |-> op, obj |-> ob, effect_obj |-> effect_obj, seconds |-> seconds,
     start_frame |-> start_frame, inserted |-> inserted]

AnimInit ==
    /\ objects = AnimScene /\ nextId = 7 /\ props = NoProps
    /\ keyframes = {} /\ rng = 0 /\ nops = 0
    /\ render \in RenderSettings
    /\ last = AnimLast("none", 0, 0, 0, 0, {})
    /\ orig = NoProps
    /\ CodecIdle

AnimTether ==
    /\ nops < MaxOps
    /\ \E seconds \in Seconds, start_frame \in StartFrames,
          tether_slack \in {NoneVal, 0, 5} :
         /\ keyframes' =
              animate_tether(keyframes, TetherId,
                             [shoot_time |-> seconds,
                              tether_slack |-> tether_slack],
                             start_frame, render)
         /\ last' = AnimLast("animate_tether", TetherId,
                             IF ~IsNone(tether_slack) /\ tether_slack > 0
                             THEN TetherId ELSE 0,
                             seconds, start_frame,
                             animate_tether({}, TetherId,
                                            [shoot_time |-> seconds,
                                             tether_slack |-> tether_slack],
                                            start_frame, render))
    /\ nops' = nops + 1
    /\ UNCHANGED <<objects, nextId, props, rng, render, orig, codecVars>>

AnimProjectile ==
    /\ nops < MaxOps
    /\ \E seconds \in Seconds, start_frame \in StartFrames,
          with_trail \in BOOLEAN :
         /\ keyframes' =
              projectile_animate_shot(
                keyframes,
                IF with_trail THEN ProjectileId ELSE BareProjectileId,
                IF with_trail THEN TrailId ELSE 0,
                [shoot_time |-> seconds], start_frame, render)
         /\ last' = AnimLast("animate_projectile",
                             IF with_trail THEN ProjectileId
                             ELSE BareProjectileId,
                             IF with_trail THEN TrailId ELSE 0,
                             seconds, start_frame,
                             projectile_animate_shot(
                               {},
                               IF with_trail THEN ProjectileId
                               ELSE BareProjectileId,
                               IF with_trail THEN TrailId ELSE 0,
                               [shoot_time |-> seconds], start_frame, render))
    /\ nops' = nops + 1
    /\ UNCHANGED <<objects, nextId, props, rng, render, orig, codecVars>>

AnimSpread ==
    /\ nops < MaxOps
    /\ \E seconds \in Seconds, start_frame \in StartFrames :
         LET st == animate_spread([Start(NoLedger) EXCEPT
                                     !.center = CenterId, !.ribs = {RibId}],
                                  start_frame, seconds, 0)
         IN /\ keyframes' = st.keyframes
            /\ objects' = st.objects
            /\ nextId' = st.nextId
            /\ last' = AnimLast("animate_spread", CenterId, 0, seconds,
                                start_frame,
                                animate_spread(
                                  [Start(NoLedger) EXCEPT
                                     !.center = CenterId, !.ribs = {RibId},
                                     !.keyframes = {}],
                                  start_frame, seconds, 0).keyframes)
    /\ nops' = nops + 1
    /\ UNCHANGED <<props, rng, render, orig, codecVars>>

AnimNext == AnimTether \/ AnimProjectile \/ AnimSpread

AnimSpec == AnimInit /\ [][AnimNext]_vars

----------------------------------------------------------------------------
(* CodecSpec: storing a configuration and a ledger on one SpiderWeb empty  *)
(* and loading them back, as create_web and the update operators do.       *)

\* properties left on the empty by an earlier web of the largest density
\* explored: a later store of a smaller web does not delete them
StaleProps ==
    LET c == [DefaultSpreadConfig EXCEPT
                 !.density_spoke = MinSpoke + ExtraSpoke,
                 !.density_rib = MinRib + ExtraRib]
    IN store_random_values_on_empty(NoProps, FreshLedger(c, 1))

CodecInit ==
    /\ cfg = NoConfig
    /\ led = NoLedger
    /\ empty \in {NoProps, StaleProps}
    /\ out = NoConfig
    /\ outLed = NoLedger
    /\ cpc = "init"
    /\ SceneIdle

\* create_web / update_spider_web: the configuration comes from the panel,
\* the ledger from generate_random_values, and both are stored
CodecStore ==
    /\ cpc = "init"
    /\ \E p \in PanelValues, s \in 0 .. RngStates - 1 :
         LET c == to_config(p)
             g == generate_random_values(c.spider_spread_config, NoLedger, s)
         IN /\ cfg' = c
            /\ led' = g.led
            /\ empty' = StoreAll(empty, c, g.led)
    /\ cpc' = "stored"
    /\ UNCHANGED <<out, outLed>>
    /\ UNCHANGED sceneVars

\* update_spider_web_position, first half: load_original_config_from_web,
\* then load_random_values_from_empty with the loaded densities
CodecLoad ==
    /\ cpc \in {"stored", "restored"}
    /\ LET c == load_original_config_from_web(empty)
       IN /\ out' = c
          /\ outLed' = load_random_values_from_empty(
                          empty, c.spider_spread_config.density_spoke,
                          c.spider_spread_config.density_rib)
    /\ cpc' = "loaded"
    /\ UNCHANGED <<cfg, led, empty>>
    /\ UNCHANGED sceneVars

\* update_spider_web_position, second half: the loaded configuration and
\* ledger become the new web's and are stored back
CodecRestore ==
    /\ cpc = "loaded"
    /\ cfg' = out
    /\ led' = set_random_values(outLed.edge, outLed.interior)
    /\ empty' = StoreAll(empty, out, led')
    /\ cpc' = "restored"
    /\ UNCHANGED <<out, outLed>>
    /\ UNCHANGED sceneVars

CodecNext == CodecStore \/ CodecLoad \/ CodecRestore

CodecSpec == CodecInit /\ [][CodecNext]_vars

----------------------------------------------------------------------------
(* Claims about persistence (CodecSpec)                                    *)

ShotNumericFields ==
    {"tether_width", "tether_slack", "projectile_size",
     "projectile_trail_length"}

\* the numeric fields of the branch is_tethered does not select
InactiveFields(c) ==
    IF c.is_tethered THEN {"projectile_size", "projectile_trail_length"}
    ELSE {"tether_width", "tether_slack"}

\* the property that holds shot field f
ShotKey(f) ==
    CASE f = "tether_width" -> Key("spider_shot_tether_width")
      [] f = "tether_slack" -> Key("spider_shot_tether_slack")
      [] f = "projectile_size" -> Key("spider_shot_projectile_size")
      [] f = "projectile_trail_length" ->
             Key("spider_shot_projectile_trail_length")

\* C7: config round-trip.  The configuration loaded from the properties the
\* store operations wrote equals the stored one in every field (shot, spread
\* with web_thickness, animate_web, start_frame); the one difference allowed
\* is an inactive tagged-union numeric field read back as unset.
C7_ConfigRoundTrip ==
    cpc = "loaded" =>
      /\ out.spider_shot_config.shoot_time = cfg.spider_shot_config.shoot_time
      /\ out.spider_shot_config.is_tethered
            = cfg.spider_shot_config.is_tethered
      /\ \A f \in ShotNumericFields :
            \/ out.spider_shot_config[f] = cfg.spider_shot_config[f]
            \/ /\ f \in InactiveFields(cfg.spider_shot_config)
               /\ IsNone(out.spider_shot_config[f])
      /\ out.spider_spread_config = cfg.spider_spread_config
      /\ out.animate_web = cfg.animate_web
      /\ out.start_frame = cfg.start_frame

\* C8: ledger round-trip.  Loading the ledger with the densities it was
\* stored with returns the same key set and the same value at every key,
\* whatever other ledger entries the empty still carries.
C8_LedgerRoundTrip ==
    cpc = "loaded" =>
      /\ DOMAIN outLed.edge = 0 .. cfg.spider_spread_config.density_spoke - 1
      /\ DOMAIN outLed.interior =
            (0 .. cfg.spider_spread_config.density_spoke - 1)
               \X (0 .. cfg.spider_spread_config.density_rib - 1)
      /\ outLed = led

\* a ledger with a non-zero x and a different y offset was stored on an empty
\* that also carries an older entry beyond the stored density, and loaded
C8_Witness ==
    /\ cpc = "loaded"
    /\ \E i \in DOMAIN led.edge :
          led.edge[i][1] # 0 /\ led.edge[i][1] # led.edge[i][2]
    /\ Has(empty, KeyI("spider_spread_edge_random_x",
                       cfg.spider_spread_config.density_spoke))

\* C9: after construction / normalization of a shot configuration, and after
\* decoding one from the stored properties, none of its four numeric fields
\* is None.
C9_NoMissingNumber ==
    /\ cpc \in {"stored", "restored"} =>
          \A f \in ShotNumericFields : ~IsNone(cfg.spider_shot_config[f])
    /\ cpc = "loaded" =>
          \A f \in ShotNumericFields : ~IsNone(out.spider_shot_config[f])

\* C10: a numeric field of the inactive branch that is unset is written as
\* 0.0, and a stored value of exactly 0.0 is read back as unset.
C10_UnsetStoredAsZero ==
    /\ cpc \in {"stored", "restored"} =>
          \A f \in InactiveFields(cfg.spider_shot_config) :
             IsNone(cfg.spider_shot_config[f]) => empty[ShotKey(f)] = 0
    /\ cpc = "loaded" =>
          \A f \in ShotNumericFields :
             empty[ShotKey(f)] = 0 => IsNone(out.spider_shot_config[f])


----------------------------------------------------------------------------
(* LoadSpec: a web's configuration is built and stored on its SpiderWeb    *)
(* empty, the user deletes or edits custom properties of the empty, and    *)
(* the update operator loads what is left and lays the web out with it     *)

\* edits of custom properties explored after the store
MaxEdits == 2

\* SpiderSpreadConfig(density_spoke = ..., density_rib = ...) built by a
\* script: the dataclass takes any value
ScriptConfigs ==
    {[DefaultWebConfig EXCEPT
        !.animate_web = FALSE,
        !.spider_spread_config.density_spoke = S,
        !.spider_spread_config.density_rib = R] :
       S \in {2, MinSpoke}, R \in {0, MinRib}}

\* the configurations that get stored: from the panel or from a script
LoadConfigs ==
    {to_config(p) : p \in ScenePanels} \cup ScriptConfigs
      \cup {to_config([BasePanel EXCEPT !.web_thickness = 5])}

\* the properties the user deletes: those of the configuration and the
\* ledger entries of spoke 0
DeletableKeys ==
    {k \in DOMAIN empty : k[2] <= 0 /\ k[3] <= 0}

\* the values the user types into a property of the empty
EditedValues ==
    {<<Key("spider_spread_density_spoke"), 2>>,
     <<Key("spider_spread_density_rib"), 0>>,
     <<Key("spider_spread_radius"), 0>>,
     <<Key("spider_shot_tether_slack"), 0>>,
     <<Key("spider_web_start_frame"), 0>>}

LoadInit ==
    /\ cfg = NoConfig /\ led = NoLedger /\ empty = NoProps
    /\ out = NoConfig /\ outLed = NoLedger /\ cpc = "init"
    /\ objects = {} /\ nextId = 1 /\ props = NoProps /\ keyframes = {}
    /\ rng \in Seeds /\ nops = 0
    /\ render = [fps |-> 24, fps_base |-> 1]
    /\ last = [op |-> "none"] /\ orig = NoProps

\* SpiderWeb(origin, target, config) ... store_config_on_empty: the ledger
\* generate_random_values drew is stored with the configuration
LoadPersist ==
    /\ cpc = "init"
    /\ \E c \in LoadConfigs :
         LET g == generate_random_values(c.spider_spread_config, NoLedger, rng)
         IN /\ cfg' = c
            /\ led' = g.led
            /\ rng' = g.rng
            /\ empty' = StoreAll(empty, c, g.led)
    /\ cpc' = "stored"
    /\ UNCHANGED <<out, outLed, objects, nextId, props, keyframes, last, nops,
                   render, orig>>

\* del empty[key] by the user
LoadDelete ==
    /\ cpc = "stored" /\ nops < MaxEdits
    /\ \E k \in DeletableKeys :
         empty' = [x \in (DOMAIN empty) \ {k} |-> empty[x]]
    /\ nops' = nops + 1
    /\ UNCHANGED <<cfg, led, out, outLed, cpc, objects, nextId, props,
                   keyframes, rng, last, render, orig>>

\* empty[key] = value by the user
LoadEdit ==
    /\ cpc = "stored" /\ nops < MaxEdits
    /\ \E kv \in EditedValues : empty' = SetProp(empty, kv[1], kv[2])
    /\ nops' = nops + 1
    /\ UNCHANGED <<cfg, led, out, outLed, cpc, objects, nextId, props,
                   keyframes, rng, last, render, orig>>

\* update_spider_web_position on the SpiderWeb empty: the configuration and
\* the ledger are loaded from it, the web is built with them (cleanup finds
\* nothing to delete in this scene, 0 stands for the three empties), and
\* the configuration is stored again unless an exception was raised
LoadLayout ==
    /\ cpc = "stored"
    /\ LET c == load_original_config_from_web(empty)
           existing ==
               load_random_values_from_empty(
                 empty, c.spider_spread_config.density_spoke,
                 c.spider_spread_config.density_rib)
           st == create_spread(
                   Start(set_random_values(existing.edge, existing.interior)),
                   c.spider_spread_config, 0, 0)
           s3 == create_mesh(st, c.spider_spread_config, 0)
           s4 == create_shot(s3, c.spider_shot_config,
                             IF c.spider_shot_config.is_tethered THEN 4 ELSE 3,
                             0, 0)
           s5 == animate(s4, c, 4, 0)
       IN /\ out' = c
          /\ outLed' = existing
          /\ objects' = s5.objects
          /\ nextId' = s5.nextId
          /\ rng' = s5.rng
          /\ keyframes' = s5.keyframes
          /\ empty' = IF s5.raised THEN empty ELSE StoreAll(empty, c, s5.led)
          /\ last' = [op |-> "layout", raised |-> st.raised, led |-> st.led,
                      result |-> IF s5.raised THEN "CANCELLED" ELSE "FINISHED",
                      before |-> empty]
    /\ cpc' = "built"
    /\ UNCHANGED <<cfg, led, props, nops, render, orig>>

LoadNext == LoadPersist \/ LoadDelete \/ LoadEdit \/ LoadLayout

LoadSpec == LoadInit /\ [][LoadNext]_vars

----------------------------------------------------------------------------
(* Claims about the operators (Spec)                                       *)

GenerationOps == {"create", "update_position", "update_selected"}

\* the last call built a layout
Built == last.op \in GenerationOps /\ last.center # 0

FramesOf(kf, part) == {k.frame : k \in {x \in kf : x.part = part}}

Max(S) == CHOOSE m \in S : \A x \in S : x <= m
Min(S) == CHOOSE m \in S : \A x \in S : m <= x

\* C1: when animate is true, every generation path keys the shot on
\* [start_frame, start_frame + frames(shoot_time)] and the spread from the
\* shot's last frame on: the spread's first keyframes are at the frame of
\* the shot's last keyframe.
C1_ShotThenSpread ==
    (Built /\ last.config.animate_web) =>
        LET c == last.config
            shot_end == c.start_frame
                          + DurationFrames(c.spider_shot_config.shoot_time,
                                           render)
            new == {k \in keyframes : k.obj \notin last.before}
            shot == FramesOf(new, "shot")
            spread == FramesOf(new, "spread")
        IN /\ shot # {} /\ spread # {}
           /\ Min(shot) = c.start_frame /\ Max(shot) = shot_end
           /\ Min(spread) = shot_end

\* C3: when create_spread runs with a non-empty ledger, the ledger is left
\* as it is, no random draw is made, and the anchors take their jitter from
\* the ledger that was supplied.
C3_SuppliedLedgerKept ==
    (Built /\ (Truthy(last.given.edge) \/ Truthy(last.given.interior))) =>
        /\ last.led = last.given
        /\ ~last.drew
        /\ \A o \in objects :
             (o.id \notin last.before /\ o.web = last.root) =>
                /\ SpokeOf(o) => o.jitter = EdgeJitter(last.given, o.idx[1])
                /\ RibOf(o) =>
                     o.jitter = <<InteriorJitter(last.given, o.idx[1],
                                                 o.idx[2]), 0>>

C3_Witness ==
    /\ last.op = "update_position" /\ last.center # 0
    /\ Truthy(last.given.edge) /\ Truthy(last.given.interior)
    /\ \E i \in DOMAIN last.given.edge : last.given.edge[i] # <<0, 0>>
    /\ last.led = last.given

\* the four fields of the spread configuration the ledger depends on
SameLedgerFields(old, new) ==
    /\ old.density_spoke = new.density_spoke
    /\ old.density_rib = new.density_rib
    /\ old.random_spread_edge = new.random_spread_edge
    /\ old.random_spread_interior = new.random_spread_interior

\* C4: the reconfigure operator, on a web whose SpiderWeb empty holds a
\* ledger, reuses that ledger (same value at every index, no draw) if
\* density_spoke, density_rib, random_spread_edge and
\* random_spread_interior of the new configuration equal the stored ones,
\* and otherwise draws a fresh ledger for the new densities.
C4_ReuseIffFourEqual ==
    (last.op = "update_selected" /\ last.center # 0
       /\ Truthy(last.persisted.edge) /\ Truthy(last.persisted.interior)) =>
        LET old == last.old_config.spider_spread_config
            new == last.config.spider_spread_config
        IN IF SameLedgerFields(old, new)
           THEN last.led = last.persisted /\ ~last.drew
           ELSE /\ last.drew
                /\ DOMAIN last.led.edge = 0 .. new.density_spoke - 1
                /\ DOMAIN last.led.interior =
                     (0 .. new.density_spoke - 1) \X (0 .. new.density_rib - 1)

C4_Witness ==
    /\ last.op = "update_selected" /\ last.center # 0
    /\ Truthy(last.persisted.edge) /\ Truthy(last.persisted.interior)
    /\ SameLedgerFields(last.old_config.spider_spread_config,
                        last.config.spider_spread_config)
    /\ last.led = last.persisted

\* a reconfiguration that changed one of the four fields
C4_WitnessFresh ==
    /\ last.op = "update_selected" /\ last.center # 0
    /\ Truthy(last.persisted.edge) /\ Truthy(last.persisted.interior)
    /\ ~SameLedgerFields(last.old_config.spider_spread_config,
                         last.config.spider_spread_config)
    /\ last.drew

\* C5: after the create operator and then the reposition operator on the
\* same web, the ledger of the layout and the ledger stored on the
\* SpiderWeb empty are, index by index, the ledger of the layout the web
\* had before.
C5_RepositionKeepsLedger ==
    (last.op = "update_position" /\ last.center # 0
       /\ Has(orig, last.root)) =>
        /\ last.led = orig[last.root]
        /\ load_random_values_from_empty(
             PropsOf(last.root), Cardinality(DOMAIN orig[last.root].edge),
             Cardinality(DOMAIN orig[last.root].interior)
               \div Cardinality(DOMAIN orig[last.root].edge))
             = orig[last.root]

\* C6: after the reposition and the reconfigure operator the SpiderWeb,
\* WebOrigin and WebTarget empties are the ones found, every other empty the
\* web had before the call is gone, and the web has one WebCenter,
\* density_spoke WebSpoke and density_spoke * density_rib WebRib empties,
\* whatever was selected.
C6_OnlyAnchorsRebuilt ==
    (last.op \in {"update_position", "update_selected"} /\ last.center # 0) =>
        LET c == last.config.spider_spread_config
            kept == {last.root, last.origin, last.target}
            mine == {o \in objects : o.type = "EMPTY" /\ o.web = last.root}
        IN /\ kept \subseteq {o.id : o \in objects}
           /\ {o \in mine : o.id \in last.before /\ o.id \notin kept} = {}
           /\ Cardinality({o \in mine : CenterOf(o)}) = 1
           /\ Cardinality({o \in mine : SpokeOf(o)}) = c.density_spoke
           /\ Cardinality({o \in mine : RibOf(o)})
                = c.density_spoke * c.density_rib

----------------------------------------------------------------------------
(* Claims about the animation methods (AnimSpec)                           *)

\* n is seconds * fps / fps_base with its fraction dropped
Truncated(n, seconds, r) ==
    /\ n * 100 * r.fps_base <= seconds * r.fps
    /\ seconds * r.fps < (n + 1) * 100 * r.fps_base

\* n is seconds * fps / fps_base rounded to the nearest whole number
Nearest(n, seconds, r) ==
    /\ 2 * (seconds * r.fps - n * 100 * r.fps_base) <= 100 * r.fps_base
    /\ 2 * (n * 100 * r.fps_base - seconds * r.fps) < 100 * r.fps_base

\* the frames between the first and the last keyframe of the span the
\* last call keyed, and between the end of that span and the last keyframe
\* of the effect that follows it
SpanFrames ==
    LET span == FramesOf(last.inserted, "shot")
                  \cup FramesOf(last.inserted, "spread")
    IN Max(span) - Min(span)

EffectFrames ==
    LET span == FramesOf(last.inserted, "shot")
    IN Max(FramesOf(last.inserted, "effect")) - Max(span)

\* C2: for every duration and frame rate fps / fps_base, the number of
\* frames of the shot span, of the spread span and of the effects after the
\* shot is int(seconds * fps / fps_base): the product with its fraction
\* dropped, so that a product of 3.6 gives 3 frames.
C2_FramesTruncated ==
    last.op # "none" =>
        /\ last.start_frame = Min(FramesOf(last.inserted, "shot")
                                    \cup FramesOf(last.inserted, "spread"))
        /\ Truncated(SpanFrames, last.seconds, render)
        /\ last.effect_obj # 0 =>
             Truncated(EffectFrames, slack_duration_seconds, render)

\* C2 as stated: the number of frames is the product rounded to the nearest
\* frame, so that a product of 3.6 gives 4 frames.
C2_FramesRounded ==
    last.op # "none" =>
        /\ Nearest(SpanFrames, last.seconds, render)
        /\ last.effect_obj # 0 =>
             Nearest(EffectFrames, slack_duration_seconds, render)

\* 0.15 s at 24 fps: a product of 3.6, keyed over 3 frames
C2_Witness ==
    /\ last.op = "animate_tether" /\ last.effect_obj # 0
    /\ render = [fps |-> 24, fps_base |-> 1]
    /\ last.seconds = 15
    /\ SpanFrames = 3

----------------------------------------------------------------------------
(* Claims about loading and validation (LoadSpec)                          *)

\* the ranges a configuration is required to be in
InBounds(c) ==
    LET sp == c.spider_spread_config
        sh == c.spider_shot_config
    IN /\ sp.density_spoke \in 3 .. 64
       /\ sp.density_rib \in 1 .. 32
       /\ sp.radius > 0
       /\ sp.height >= 0
       /\ sp.spread_time > 0
       /\ sh.shoot_time > 0
       /\ sp.curvature \in 0 .. 400
       /\ sp.random_spread_edge \in 0 .. 100
       /\ sp.random_spread_interior \in 0 .. 100
       /\ c.start_frame >= 1

\* C11: no configuration with a field outside its range is ever constructed,
\* and no layout is ever built with one, whether it was constructed directly
\* or decoded from the stored properties.
C11_OutOfRangeRejected ==
    /\ cpc # "init" => InBounds(cfg)
    /\ cpc = "built" => InBounds(out)

\* the stored properties of the spread and shot fields that are loaded
SpreadKeyOf ==
    [radius |-> "spider_spread_radius", height |-> "spider_spread_height",
     spread_time |-> "spider_spread_spread_time",
     density_spoke |-> "spider_spread_density_spoke",
     density_rib |-> "spider_spread_density_rib",
     curvature |-> "spider_spread_curvature",
     random_spread_edge |-> "spider_spread_random_spread_edge",
     random_spread_interior |-> "spider_spread_random_spread_interior"]

ShotKeyOf ==
    [shoot_time |-> "spider_shot_shoot_time",
     is_tethered |-> "spider_shot_is_tethered",
     tether_width |-> "spider_shot_tether_width",
     tether_slack |-> "spider_shot_tether_slack",
     projectile_size |-> "spider_shot_projectile_size",
     projectile_trail_length |-> "spider_shot_projectile_trail_length"]

WebKeyOf ==
    [animate_web |-> "spider_web_animate_web",
     start_frame |-> "spider_web_start_frame"]

\* field f of the loaded record c is the stored value if its property is
\* present and the default otherwise
StoredOrDefault(c, d, keyOf, f) ==
    c[f] = (IF Has(empty, Key(keyOf[f])) THEN empty[Key(keyOf[f])] ELSE d[f])

\* the ledger that was loaded has exactly the entries that are stored whole
LedgerAsStored(l, S, R) ==
    /\ \A i \in 0 .. S - 1 :
          IF Has(empty, KeyI("spider_spread_edge_random_x", i))
             /\ Has(empty, KeyI("spider_spread_edge_random_y", i))
          THEN /\ i \in DOMAIN l.edge
               /\ l.edge[i] = <<empty[KeyI("spider_spread_edge_random_x", i)],
                                empty[KeyI("spider_spread_edge_random_y", i)]>>
          ELSE i \notin DOMAIN l.edge
    /\ \A ij \in (0 .. S - 1) \X (0 .. R - 1) :
          IF Has(empty, KeyIJ("spider_spread_interior_random", ij[1], ij[2]))
          THEN /\ ij \in DOMAIN l.interior
               /\ l.interior[ij] =
                    empty[KeyIJ("spider_spread_interior_random", ij[1], ij[2])]
          ELSE ij \notin DOMAIN l.interior

\* C13: after a load from a store with any keys missing, every field whose
\* property is missing holds its default and every field whose property is
\* present holds the stored value, and the loaded ledger holds exactly the
\* entries that are stored.
C13_LoadFieldByField ==
    cpc = "built" =>
      /\ \A f \in DOMAIN SpreadKeyOf :
            StoredOrDefault(out.spider_spread_config, DefaultSpreadConfig,
                            SpreadKeyOf, f)
      /\ \A f \in DOMAIN ShotKeyOf :
            StoredOrDefault(out.spider_shot_config, DefaultShotConfig,
                            ShotKeyOf, f)
      /\ \A f \in DOMAIN WebKeyOf :
            StoredOrDefault(out, DefaultWebConfig, WebKeyOf, f)
      /\ LedgerAsStored(outLed, out.spider_spread_config.density_spoke,
                        out.spider_spread_config.density_rib)

\* the part of C13 the code keeps: everything but the numeric shot fields
C13_ExceptShotNumbers ==
    cpc = "built" =>
      /\ \A f \in DOMAIN SpreadKeyOf :
            StoredOrDefault(out.spider_spread_config, DefaultSpreadConfig,
                            SpreadKeyOf, f)
      /\ \A f \in (DOMAIN ShotKeyOf) \ ShotNumericFields :
            StoredOrDefault(out.spider_shot_config, DefaultShotConfig,
                            ShotKeyOf, f)
      /\ \A f \in ShotNumericFields :
            Has(empty, ShotKey(f)) /\ empty[ShotKey(f)] # 0 =>
               out.spider_shot_config[f] = empty[ShotKey(f)]
      /\ LedgerAsStored(outLed, out.spider_spread_config.density_spoke,
                        out.spider_spread_config.density_rib)

----------------------------------------------------------------------------
(* Claims about failure reports (Spec)                                     *)

UpdateOps == {"update_position", "update_selected"}

\* the call that just ended was an update that did not find all three of
\* the SpiderWeb, WebOrigin and WebTarget empties
MissingAnchor ==
    /\ nops' = nops + 1
    /\ last'.op \in UpdateOps
    /\ (last'.root = 0 \/ last'.origin = 0 \/ last'.target = 0)

\* C12: an update that cannot find all of the SpiderWeb, WebOrigin and
\* WebTarget empties is reported as CANCELLED and changes nothing in the
\* scene: no object is deleted or created, no property is written and no
\* keyframe is inserted.
C12_MissingAnchorCancels ==
    [][MissingAnchor =>
         /\ last'.result = "CANCELLED"
         /\ UNCHANGED <<objects, nextId, props, keyframes>>]_vars

C12_Witness ==
    /\ last.op \in UpdateOps
    /\ last.result = "CANCELLED"
    /\ last.root = 0

\* the web of the last call is whole: its center, every spoke and rib
\* anchor, every spoke and rib level mesh and the shot object are in the
\* scene, its keyframes are inserted if it is animated, and its
\* configuration is stored on the SpiderWeb empty
WholeWeb ==
    LET root == last.root
        S == last.config.spider_spread_config.density_spoke
        R == last.config.spider_spread_config.density_rib
        mine == {o \in objects : o.web = root /\ o.id \notin last.before}
        has(type, name, idx) ==
            \E o \in mine : o.type = type /\ o.name = name /\ o.idx = idx
    IN /\ last.center # 0
       /\ \E o \in mine : o.id = last.center /\ o.name = <<"Web", "Center">>
       /\ \A i \in 0 .. S - 1 :
             /\ has("EMPTY", <<"Web", "Spoke">>, <<i, -1>>)
             /\ has("MESH", <<"Web", "Spoke">>, <<i, -1>>)
             /\ \A j \in 1 .. R : has("EMPTY", <<"Web", "Rib">>, <<i, j>>)
             /\ \A l \in 0 .. R - 1 :
                   has("MESH", <<"Web", "Rib", "Level">>, <<l, i>>)
       /\ \E o \in mine :
             o.name \in {<<"Web", "Tether">>, <<"Web", "Shot">>}
       /\ last.config.animate_web =>
             \E k \in keyframes : k.obj = last.center
       /\ Has(props, root)
       /\ load_original_config_from_web(props[root]).spider_spread_config.density_spoke = S

\* C14: a generation, reposition or reconfiguration that is reported as
\* FINISHED has built the whole web: a call in which a step failed after
\* objects were created or deleted is reported as CANCELLED.
C14_PartialNeverFinished ==
    (last.op \in GenerationOps /\ last.result = "FINISHED") => WholeWeb

\* a call failed after the layout was built, and was reported as CANCELLED
C14_Witness ==
    /\ last.op \in GenerationOps
    /\ last.result = "CANCELLED"
    /\ last.center # 0
    /\ ~WholeWeb

----------------------------------------------------------------------------
(* Geometry: get_point_offset_from_end (src/addon/utils.py) and            *)
(* SpiderSpread.calculate_curved_position.  A Vector is a triple of        *)
(* integers.  A length that is a square root is kept as its square, so   *)
(* that a normalized vector is exact: Vector.normalized() of v is v        *)
(* divided by the root of LenSq(v), and the zero vector for v = 0.         *)

Zero3 == <<0, 0, 0>>
Add3(a, b) == <<a[1] + b[1], a[2] + b[2], a[3] + b[3]>>
Sub3(a, b) == <<a[1] - b[1], a[2] - b[2], a[3] - b[3]>>
Scale3(a, k) == <<a[1] * k, a[2] * k, a[3] * k>>
Dot3(a, b) == a[1] * b[1] + a[2] * b[2] + a[3] * b[3]
Cross3(a, b) ==
    <<a[2] * b[3] - a[3] * b[2], a[3] * b[1] - a[1] * b[3],
      a[1] * b[2] - a[2] * b[1]>>
LenSq(a) == Dot3(a, a)
Abs(x) == IF x < 0 THEN -x ELSE x

\* the point base - dir * num / sqrt(sq)
OffsetPoint(base, dir, num, sq) ==
    [base |-> base, dir |-> dir, num |-> num, sq |-> sq]

\* the point v itself
At(v) == OffsetPoint(v, Zero3, 0, 1)

\* get_point_offset_from_end with the division by the length left out
get_point_offset_from_end_unnormalized(start, end, distance_from_end) ==
    LET direction == Sub3(end, start)
        length_sq == LenSq(direction)
    IN IF distance_from_end >= 0
          /\ distance_from_end * distance_from_end >= length_sq
       THEN At(start)
       ELSE IF distance_from_end <= 0 THEN At(end)
       ELSE OffsetPoint(end, direction, distance_from_end, 1)

\* get_point_offset_from_end: distance_from_end >= line_length is compared
\* on the squares
get_point_offset_from_end(start, end, distance_from_end) ==
    LET direction == Sub3(end, start)
        length_sq == LenSq(direction)
    IN IF distance_from_end >= 0
          /\ distance_from_end * distance_from_end >= length_sq
       THEN At(start)
       ELSE IF distance_from_end <= 0 THEN At(end)
       ELSE OffsetPoint(end, direction, distance_from_end, length_sq)

\* t runs over the multiples of 1 / (2 * HalfSteps) in [0, 1]
HalfSteps == 2
TDen == 2 * HalfSteps

\* the point lin.num / lin.den - normalized(dir) * fnum / fden
CurvePoint(lin, dir, fnum, fden) ==
    [lin |-> lin, dir |-> dir, fnum |-> fnum, fden |-> fden]

\* calculate_curved_position with curve_factor = (t * t) * 4 * curve_amount * 0.5
calculate_curved_position_no_linear_term(start, end, reference, tn, curve_amount) ==
    CurvePoint([num |-> Add3(Scale3(start, TDen - tn), Scale3(end, tn)),
                den |-> TDen],
               Sub3(Scale3(reference, 2), Add3(start, end)),
               (tn * tn) * 4 * curve_amount, 2 * TDen * TDen)

\* calculate_curved_position with curve_factor = (t * t - t) * 4 * curve_amount
calculate_curved_position_whole_factor(start, end, reference, tn, curve_amount) ==
    CurvePoint([num |-> Add3(Scale3(start, TDen - tn), Scale3(end, tn)),
                den |-> TDen],
               Sub3(Scale3(reference, 2), Add3(start, end)),
               (tn * tn - tn * TDen) * 4 * curve_amount, TDen * TDen)

\* SpiderSpread.calculate_curved_position at t = tn / TDen:
\* linear_pos = start.lerp(end, t); direction is the normalized vector from
\* the midpoint to reference (twice that vector has the same direction);
\* curve_factor = ((t * t - t) * 4.0 * curve_amount) * 0.5
calculate_curved_position(start, end, reference, tn, curve_amount) ==
    CurvePoint([num |-> Add3(Scale3(start, TDen - tn), Scale3(end, tn)),
                den |-> TDen],
               Sub3(Scale3(reference, 2), Add3(start, end)),
               (tn * tn - tn * TDen) * 4 * curve_amount, 2 * TDen * TDen)

\* the points and the numbers the two functions are called with
\* (small integers, so that every product stays within 32 bits)
Points ==
    {<<0, 0, 0>>, <<0, 0, 10>>, <<0, 0, 20>>, <<30, 0, 40>>, <<10, 20, 20>>,
     <<50, 30, 50>>}
Distances == {-3, 0, 3, 10, 30, 50, 90}
CurveAmounts == {0, 1, 40}

GeomInit == SceneIdle /\ CodecIdle

\* a call of get_point_offset_from_end
GeomOffset ==
    /\ last.op = "none"
    /\ \E start \in Points, end \in Points, d \in Distances :
         last' = [op |-> "offset", start |-> start, end |-> end,
                  distance |-> d,
                  result |-> get_point_offset_from_end(start, end, d)]
    /\ UNCHANGED <<objects, nextId, props, keyframes, rng, nops, render,
                   orig, codecVars>>

\* a call of calculate_curved_position, next to the call at t = 0.5 with the
\* same vectors
GeomCurve ==
    /\ last.op = "none"
    /\ \E start \in Points, end \in Points, reference \in Points,
          tn \in 0 .. TDen, c \in CurveAmounts :
         last' = [op |-> "curve", start |-> start, end |-> end,
                  reference |-> reference, tn |-> tn, curve_amount |-> c,
                  result |->
                      calculate_curved_position(start, end, reference, tn, c),
                  middle |->
                      calculate_curved_position(start, end, reference,
                                                HalfSteps, c)]
    /\ UNCHANGED <<objects, nextId, props, keyframes, rng, nops, render,
                   orig, codecVars>>

\* SpiderShot.create_tether_mesh: the control points of the spline for
\* base_distance = |web_center - origin| and tether_slack, both in
\* hundredths.  Point i is origin.lerp(web_center, t) with t = i / m, moved
\* by sag_offset along the unit vector sag_direction; sag_offset is in
\* units of 10^-7.  cosh(x) - 1 is taken as x^2/2 + x^4/24 + x^6/720 in
\* thousandths, rounded down: a lower bound that is 0 only where x is.
tether_points(base_distance, tether_slack) ==
    LET num_points ==
            Max({8, (base_distance * (100 + tether_slack)) \div 1000})
        m == num_points - 1
        \* x = (t - 0.5) * 4 = 2 * (2 * i - m) / m, x2 = x^2 in thousandths
        x2(i) == (4000 * (2 * i - m) * (2 * i - m)) \div (m * m)
        catenary_factor(i) ==
            x2(i) \div 2 + (x2(i) * x2(i)) \div 24000
              + (((x2(i) * x2(i)) \div 1000) * x2(i)) \div 720000
    IN [i \in 0 .. m |->
          [t |-> <<i, m>>,
           sag_offset |->
               (catenary_factor(i) * tether_slack * base_distance) \div 2]]

\* a call of create_tether_mesh with the origin and the web center
\* base_distance apart
GeomTether ==
    /\ last.op = "none"
    /\ \E base_distance \in {50, 90, 500}, tether_slack \in {0, 5, 50} :
         last' = [op |-> "tether", base_distance |-> base_distance,
                  tether_slack |-> tether_slack,
                  points |-> tether_points(base_distance, tether_slack)]
    /\ UNCHANGED <<objects, nextId, props, keyframes, rng, nops, render,
                   orig, codecVars>>

GeomNext == GeomOffset \/ GeomCurve \/ GeomTether

GeomSpec == GeomInit /\ [][GeomNext]_vars

----------------------------------------------------------------------------
(* Claims about the geometry (GeomSpec)                                    *)

\* the point p is the lattice point v
SameAs(p, v) ==
    LET w == Sub3(p.base, v)
    IN IF p.num = 0 \/ p.dir = Zero3 THEN w = Zero3
       ELSE /\ Cross3(w, p.dir) = Zero3
            /\ Dot3(w, p.dir) * p.num >= 0
            /\ LenSq(w) * p.sq = LenSq(p.dir) * p.num * p.num

\* the point p lies on the closed segment from o to t
OnSegment(p, o, t) ==
    LET ot == Sub3(t, o)
    IN IF p.num = 0 \/ p.dir = Zero3
       THEN /\ Cross3(Sub3(p.base, o), ot) = Zero3
            /\ Dot3(Sub3(p.base, o), ot) \in 0 .. LenSq(ot)
       ELSE /\ p.base = t
            /\ Cross3(p.dir, ot) = Zero3
            /\ Dot3(p.dir, ot) > 0
            /\ p.num >= 0
            /\ LenSq(p.dir) * p.num * p.num <= p.sq * LenSq(ot)

\* the point p, given from t, is at distance h from t
AtDistanceFrom(p, t, h) ==
    /\ p.base = t
    /\ LenSq(p.dir) * p.num * p.num = h * h * p.sq

\* C18: get_point_offset_from_end(O, T, height) is O when height >= |T - O|
\* (O = T included), is T when height <= 0 and height < |T - O|, and is
\* otherwise the point at distance exactly height from T; the result is on
\* the closed segment from O to T.
C18_PointOffsetFromEnd ==
    last.op = "offset" =>
      LET O == last.start
          T == last.end
          h == last.distance
          beyond == h >= 0 /\ h * h >= LenSq(Sub3(T, O))
      IN /\ beyond => SameAs(last.result, O)
         /\ (h <= 0 /\ ~beyond) => SameAs(last.result, T)
         /\ (h > 0 /\ ~beyond) => AtDistanceFrom(last.result, T, h)
         /\ OnSegment(last.result, O, T)

\* a call that returns a point strictly inside the segment
C18_Witness ==
    /\ last.op = "offset"
    /\ last.distance > 0
    /\ last.distance * last.distance < LenSq(Sub3(last.end, last.start))
    /\ last.result.num # 0

\* the curve point c is the lattice point v
CurveSameAs(c, v) ==
    /\ c.lin.num = Scale3(v, c.lin.den)
    /\ (c.fnum = 0 \/ c.dir = Zero3)

\* C19: calculate_curved_position at t = 0 is start and at t = 1 is end, for
\* every start, end, reference and curve_amount.
C19_CurveEndpoints ==
    last.op = "curve" =>
      /\ last.tn = 0 => CurveSameAs(last.result, last.start)
      /\ last.tn = TDen => CurveSameAs(last.result, last.end)

\* a call at t = 1 with a bend in between and distinct ends
C19_Witness ==
    /\ last.op = "curve"
    /\ last.tn = TDen
    /\ last.curve_amount > 0
    /\ last.start # last.end
    /\ last.middle.fnum # 0 /\ last.middle.dir # Zero3

\* the distance of the curve point from linear_pos, as a fraction
Displacement(c) ==
    IF c.dir = Zero3 THEN [num |-> 0, den |-> 1]
    ELSE [num |-> Abs(c.fnum), den |-> c.fden]

\* a / b <= c / d for positive denominators
FracLeq(x, y) == x.num * y.den <= y.num * x.den

\* C20 as stated: for curve_amount > 0 the displacement from the straight
\* line is largest at t = 0.5 and is curve_amount * 0.5 there.
C20_ExtremumAtHalf ==
    (last.op = "curve" /\ last.curve_amount > 0) =>
      /\ FracLeq(Displacement(last.result), Displacement(last.middle))
      /\ 2 * Displacement(last.middle).num
            = last.curve_amount * Displacement(last.middle).den

\* the reference point is the midpoint of start and end
ReferenceIsMidpoint ==
    Scale3(last.reference, 2) = Add3(last.start, last.end)

\* C20: for curve_amount > 0 and a reference point that is not the midpoint
\* of start and end, the displacement from the straight line is largest at
\* t = 0.5 and is curve_amount * 0.5 there; with the reference point at the
\* midpoint the displacement is zero for every t.
C20_ExtremumUnlessMidpoint ==
    (last.op = "curve" /\ last.curve_amount > 0) =>
      /\ FracLeq(Displacement(last.result), Displacement(last.middle))
      /\ IF ReferenceIsMidpoint
         THEN Displacement(last.result).num = 0
         ELSE 2 * Displacement(last.middle).num
                 = last.curve_amount * Displacement(last.middle).den

\* a bent call away from t = 0.5 whose reference is not the midpoint
C20_Witness ==
    /\ last.op = "curve"
    /\ last.curve_amount > 0
    /\ ~ReferenceIsMidpoint
    /\ last.tn \notin {0, HalfSteps, TDen}
    /\ Displacement(last.result).num > 0

----------------------------------------------------------------------------
(* LayoutSpec: SpiderSpread.create_spread run again and again for a web,   *)
(* the first time with an empty ledger and afterwards with the ledger that *)
(* was kept, as the update operators do after their cleanup                *)

\* layouts and losses of ledger entries after the first layout
MaxLayouts == 3

\* the location create_spread gives each anchor, by the anchor's indices:
\* the center from get_point_offset_from_end, a spoke as the terms of
\* web_center_vec + rotation_matrix @ (offset + random_offset), a rib as the
\* arguments of calculate_curved_position and the offset along the spoke
spread_positions(origin, target, c, l) ==
    LET S == c.density_spoke
        R == c.density_rib
        web_center_vec == get_point_offset_from_end(origin, target, c.height)
        spoke_position(i) ==
            [center |-> web_center_vec,
             web_direction |-> Sub3(target, origin),
             angle |-> <<i, S>>, radius |-> c.radius, height |-> c.height,
             random_offset |-> EdgeJitter(l, i)]
        curved_position(i, j) ==
            [start_pos |-> web_center_vec, end_pos |-> spoke_position(i),
             reference_pos |-> origin, t |-> <<j, R>>,
             curve_amount |-> c.curvature,
             interior_offset |-> InteriorJitter(l, i, j)]
    IN [idx \in {NoIdx} \cup {<<i, -1>> : i \in 0 .. S - 1}
                  \cup ((0 .. S - 1) \X (1 .. R)) |->
          IF idx = NoIdx THEN [kind |-> "center", at |-> web_center_vec]
          ELSE IF idx[2] = -1
          THEN [kind |-> "spoke", at |-> spoke_position(idx[1])]
          ELSE [kind |-> "rib", at |-> curved_position(idx[1], idx[2])]]

\* the spread configurations, origins and targets of the layouts
LayoutConfigs ==
    {[DefaultSpreadConfig EXCEPT
        !.density_spoke = S, !.density_rib = R,
        !.random_spread_edge = e, !.random_spread_interior = n] :
       S \in MinSpoke .. MinSpoke + ExtraSpoke,
       R \in MinRib .. MinRib + ExtraRib,
       e \in {0, 10}, n \in {0, 5}}
LayoutOrigin == <<0, 0, 0>>
LayoutTargets == {<<500, 300, 500>>, <<0, 0, 10>>}

\* the inputs and the outputs of one create_spread
LayoutRun(st0, st, origin, target, c, given) ==
    [origin |-> origin, target |-> target, config |-> c, given |-> given,
     led |-> st.led,
     created |-> st.objects \ st0.objects,
     web_spokes_ribs |-> st.web_spokes_ribs,
     positions |-> spread_positions(origin, target, c, st.led)]

LayoutInit ==
    /\ cfg = NoConfig /\ led = NoLedger /\ empty = NoProps
    /\ out = NoConfig /\ outLed = NoLedger /\ cpc = "init"
    /\ objects = {} /\ nextId = 1 /\ props = NoProps /\ keyframes = {}
    /\ rng \in 0 .. RngStates - 1 /\ nops = 0
    /\ render = [fps |-> 24, fps_base |-> 1]
    /\ last = [op |-> "none"] /\ orig = NoProps

\* SpiderSpread(origin, target, config).create_spread under a new WebTarget
LayoutFirst ==
    /\ cpc = "init"
    /\ \E c \in LayoutConfigs, target \in LayoutTargets :
         LET s0 == create_control_point(Start(NoLedger), <<"Web", "Target">>,
                                        NoIdx, 0, 0, FALSE)
             st == create_spread(s0, c, nextId, 0)
         IN /\ cfg' = [NoConfig EXCEPT !.spider_spread_config = c]
            /\ led' = st.led
            /\ objects' = st.objects
            /\ nextId' = st.nextId
            /\ rng' = st.rng
            /\ last' = [op |-> "first",
                        run |-> LayoutRun(s0, st, LayoutOrigin, target, c,
                                          NoLedger),
                        prev |-> << >>]
    /\ cpc' = "built"
    /\ UNCHANGED <<empty, out, outLed, props, keyframes, nops, render, orig>>

\* an entry of the kept ledger is lost (its property was missing when the
\* ledger was loaded)
LayoutLose ==
    /\ cpc = "built" /\ nops < MaxLayouts
    /\ \/ /\ 0 \in DOMAIN led.edge
          /\ led' = [led EXCEPT
                       !.edge = [i \in (DOMAIN led.edge) \ {0} |-> led.edge[i]]]
       \/ /\ <<0, 0>> \in DOMAIN led.interior
          /\ led' = [led EXCEPT
                       !.interior = [ij \in (DOMAIN led.interior) \ {<<0, 0>>}
                                       |-> led.interior[ij]]]
    /\ nops' = nops + 1
    /\ UNCHANGED <<cfg, empty, out, outLed, cpc, objects, nextId, props,
                   keyframes, rng, last, render, orig>>

\* the anchors of the last layout are removed, then a new SpiderSpread gets
\* the kept ledger with set_random_values and create_spread runs
LayoutAgain ==
    /\ cpc = "built" /\ nops < MaxLayouts
    /\ \E target \in LayoutTargets :
         LET c == cfg.spider_spread_config
             target_empty == CHOOSE o \in objects : IsTarget(o)
             given == set_random_values(led.edge, led.interior)
             s0 == [Start(given) EXCEPT
                      !.objects = RemoveObjects(
                                    objects,
                                    {o.id : o \in objects} \ {target_empty.id})]
             st == create_spread(s0, c, target_empty.id, 0)
         IN /\ objects' = st.objects
            /\ nextId' = st.nextId
            /\ rng' = st.rng
            /\ last' = [op |-> "again",
                        run |-> LayoutRun(s0, st, LayoutOrigin, target, c, led),
                        prev |-> <<last.run>>]
    /\ nops' = nops + 1
    /\ UNCHANGED <<cfg, led, empty, out, outLed, cpc, props, keyframes,
                   render, orig>>

LayoutNext == LayoutFirst \/ LayoutLose \/ LayoutAgain

LayoutSpec == LayoutInit /\ [][LayoutNext]_vars

----------------------------------------------------------------------------
(* Claims about the layout (LayoutSpec)                                    *)

\* the four inputs of a layout run
LayoutInputs(r) ==
    [origin |-> r.origin, target |-> r.target, config |-> r.config,
     given |-> r.given]

NonEmptyLedger(l) == Truthy(l.edge) \/ Truthy(l.interior)

\* C15: two runs of create_spread with the same origin, target,
\* configuration and non-empty ledger give every anchor the same position.
C15_LayoutDeterministic ==
    (/\ last.op = "again"
     /\ LayoutInputs(last.run) = LayoutInputs(last.prev[1])
     /\ NonEmptyLedger(last.run.given)) =>
       last.run.positions = last.prev[1].positions

\* two runs with the same non-empty ledger and a jittered spoke, made from
\* different states of the generator's surroundings (other object ids)
C15_Witness ==
    /\ last.op = "again"
    /\ LayoutInputs(last.run) = LayoutInputs(last.prev[1])
    /\ NonEmptyLedger(last.run.given)
    /\ last.run.created # last.prev[1].created
    /\ \E idx \in DOMAIN last.run.positions :
          /\ last.run.positions[idx].kind = "spoke"
          /\ last.run.positions[idx].at.random_offset # <<0, 0>>

\* the object of this run with the given id
CreatedObj(id) == CHOOSE o \in last.run.created : o.id = id

\* C16: one layout creates exactly 1 center, S spokes and S * R ribs; the
\* center's parent is the target, every spoke's parent is the center and
\* every rib's parent is its spoke; web_spokes_ribs lists the spokes in the
\* order 0 .. S-1 and the ribs of each spoke in the order 1 .. R.
C16_AnchorTree ==
    last.op \in {"first", "again"} =>
      LET S == last.run.config.density_spoke
          R == last.run.config.density_rib
          made == {o \in last.run.created : ~IsTarget(o)}
          centers == {o \in made : CenterOf(o)}
          spokes == {o \in made : SpokeOf(o)}
          ribs == {o \in made : RibOf(o)}
          m == last.run.web_spokes_ribs
      IN /\ made = centers \cup spokes \cup ribs
         /\ Cardinality(centers) = 1
         /\ Cardinality(spokes) = S
         /\ Cardinality(ribs) = S * R
         /\ \A o \in centers :
               \E t \in objects : IsTarget(t) /\ o.parent = t.id
         /\ \A o \in spokes : \E ce \in centers : o.parent = ce.id
         /\ \A o \in ribs :
               \E sp \in spokes : o.parent = sp.id /\ sp.idx[1] = o.idx[1]
         /\ Len(m) = S
         /\ \A i \in 1 .. S :
               /\ m[i].spoke \in {o.id : o \in spokes}
               /\ CreatedObj(m[i].spoke).idx = <<i - 1, -1>>
               /\ Len(m[i].ribs) = R
               /\ \A j \in 1 .. R :
                     /\ m[i].ribs[j] \in {o.id : o \in ribs}
                     /\ CreatedObj(m[i].ribs[j]).idx = <<i - 1, j>>

\* a layout with more than the least number of spokes and of ribs
C16_Witness ==
    /\ last.op \in {"first", "again"}
    /\ last.run.config.density_spoke > MinSpoke
    /\ last.run.config.density_rib > MinRib
    /\ Cardinality({o \in last.run.created : RibOf(o)}) > MinSpoke * MinRib

\* C17: the ledger generate_random_values draws has the edge keys
\* 0 .. S-1 and the interior keys (0 .. S-1) x (0 .. R-1); no edge component
\* exceeds random_spread_edge and no interior offset exceeds
\* random_spread_interior in magnitude, so that a randomness of zero gives
\* offsets of zero.
C17_FreshLedgerShape ==
    last.op = "first" =>
      LET c == last.run.config
          l == last.run.led
      IN /\ DOMAIN l.edge = 0 .. c.density_spoke - 1
         /\ DOMAIN l.interior =
               (0 .. c.density_spoke - 1) \X (0 .. c.density_rib - 1)
         /\ \A i \in DOMAIN l.edge :
               /\ Abs(l.edge[i][1]) <= c.random_spread_edge
               /\ Abs(l.edge[i][2]) <= c.random_spread_edge
         /\ \A ij \in DOMAIN l.interior :
               Abs(l.interior[ij]) <= c.random_spread_interior
         /\ c.random_spread_edge = 0 =>
               \A i \in DOMAIN l.edge : l.edge[i] = <<0, 0>>
         /\ c.random_spread_interior = 0 =>
               \A ij \in DOMAIN l.interior : l.interior[ij] = 0

\* a fresh ledger with an edge offset and an interior offset that are not
\* zero
C17_Witness ==
    /\ last.op = "first"
    /\ \E i \in DOMAIN last.run.led.edge : last.run.led.edge[i][1] # 0
    /\ \E ij \in DOMAIN last.run.led.interior : last.run.led.interior[ij] # 0

----------------------------------------------------------------------------
(* Claims about what a call leaves on the SpiderWeb empty (Spec)           *)

\* the configuration and the ledger a reposition would load from the
\* SpiderWeb empty of the last call
LoadedBack ==
    LET c == load_original_config_from_web(PropsOf(last.root))
    IN [config |-> c,
        ledger |-> load_random_values_from_empty(
                     PropsOf(last.root), c.spider_spread_config.density_spoke,
                     c.spider_spread_config.density_rib)]

\* C29: when the create operator returns, with animate_web true or false,
\* the SpiderWeb empty carries the configuration and the whole ledger of the
\* layout: what a reposition loads from it is that configuration (its
\* densities, randomness, animate_web and start_frame) and that ledger.
C29_CreateLeavesConfig ==
    last.op = "create" =>
      /\ Has(props, last.root)
      /\ LoadedBack.ledger = last.led
      /\ \A f \in {"density_spoke", "density_rib", "random_spread_edge",
                   "random_spread_interior", "radius", "height"} :
            LoadedBack.config.spider_spread_config[f]
              = last.config.spider_spread_config[f]
      /\ LoadedBack.config.animate_web = last.config.animate_web
      /\ LoadedBack.config.start_frame = last.config.start_frame

\* C30: a reposition that finds the SpiderWeb, WebOrigin and WebTarget
\* empties, the SpiderWeb empty carrying a configuration stored from the
\* panel, reports FINISHED.
C30_RepositionFinishes ==
    (/\ last.op = "update_position"
     /\ last.root # 0 /\ last.origin # 0 /\ last.target # 0
     /\ Has(props, last.root)) =>
       last.result = "FINISHED"

----------------------------------------------------------------------------
(* Claims about the reposition of a stored web (LoadSpec)                  *)

\* the web was stored, nobody touched its properties, and the reposition
\* reported FINISHED
Repositioned ==
    cpc = "built" /\ nops = 0 /\ last.result = "FINISHED"

\* C25: reposition preserves all original properties.  After a successful
\* reposition of an untouched web the properties on the SpiderWeb empty are
\* the ones it carried before the call, and the configuration the web was
\* rebuilt with is the one it was generated with in every active shot
\* field, every spread field (web_thickness among them), animate_web and
\* start_frame.
C25_RepositionPreservesConfig ==
    Repositioned =>
      /\ empty = last.before
      /\ out.spider_shot_config.shoot_time = cfg.spider_shot_config.shoot_time
      /\ out.spider_shot_config.is_tethered
            = cfg.spider_shot_config.is_tethered
      /\ \A f \in ShotNumericFields \ InactiveFields(cfg.spider_shot_config) :
            out.spider_shot_config[f] = cfg.spider_shot_config[f]
      /\ out.spider_spread_config = cfg.spider_spread_config
      /\ out.animate_web = cfg.animate_web
      /\ out.start_frame = cfg.start_frame

\* the same without the thickness of the strands
C25_ExceptThickness ==
    Repositioned =>
      /\ empty = last.before
      /\ out.spider_shot_config.shoot_time = cfg.spider_shot_config.shoot_time
      /\ out.spider_shot_config.is_tethered
            = cfg.spider_shot_config.is_tethered
      /\ \A f \in ShotNumericFields \ InactiveFields(cfg.spider_shot_config) :
            out.spider_shot_config[f] = cfg.spider_shot_config[f]
      /\ [out.spider_spread_config EXCEPT !.web_thickness = 0]
            = [cfg.spider_spread_config EXCEPT !.web_thickness = 0]
      /\ out.animate_web = cfg.animate_web
      /\ out.start_frame = cfg.start_frame

----------------------------------------------------------------------------
(* Claims about the objects of one web after several calls (Spec)          *)

\* the shot geometry built for the web of SpiderWeb empty root: "WebTether"
\* curves and "WebShot" spheres
ShotGeometry(root) ==
    {o \in objects : /\ o.web = root
                     /\ o.name \in {<<"Web", "Tether">>, <<"Web", "Shot">>}}

SpreadSpheres(root) ==
    {o \in objects : o.web = root /\ o.name = <<"Web", "Spread", "Sphere">>}

\* C28: shot objects do not accumulate.  After every call that reported
\* FINISHED, the web it worked on has exactly one shot geometry and at most
\* one spread sphere.
C28_OneShotGeometry ==
    (last.op \in GenerationOps /\ last.result = "FINISHED") =>
       /\ Cardinality(ShotGeometry(last.root)) = 1
       /\ Cardinality(SpreadSpheres(last.root)) <= 1

----------------------------------------------------------------------------
(* ChoreoSpec: animate_spread of SpiderSpread and the animation methods of  *)
(* TetherShot and ProjectileShot, one host call at a time, with the value   *)
(* every keyframe holds.  A call may fail between any two host calls.       *)

\* a keyed value: tag says what it measures, num / den how much.
\*   "target", "offset"     the center at the target / at its resting place
\*   "near_center"          a rib num/den away from the resting center,
\*                          toward the rib's own resting place
\*   "resting"              a rib at its resting place
\*   "scale"                a scale of num/den (z for the trail)
\*   "zero"                 the scale (0, 0, 0)
\*   "length"               z scale, as a fraction of |target - origin|
\*   "angle"                rotation about x in radians
\*   "along"                a point num/den away from the origin toward the
\*                          target (hundredths)
Val(tag, num, den) == [tag |-> tag, num |-> num, den |-> den]

KeyV(ob, path, frame, value) ==
    [obj |-> ob, path |-> path, frame |-> frame, value |-> value]

\* obj.<path> = value; obj.keyframe_insert(data_path=path, frame=frame)
Insert(ob, path, frame, value) ==
    [do |-> "insert", key |-> KeyV(ob, path, frame, value)]

\* obj.animation_data_clear()
Clear(ob) == [do |-> "clear", key |-> KeyV(ob, "", 0, Val("", 0, 1))]

\* keyframe_insert: a keyframe already at that frame of that path is replaced
keyframe_insert(kf, k) ==
    {x \in kf : x.obj # k.obj \/ x.path # k.path \/ x.frame # k.frame}
       \cup {k}

\* "rib_batch_size = 5  # Process 5 ribs at a time"
rib_batch_size == 5

\* the rib loop of animate_spread: for each batch of ribs the start
\* keyframes of the whole batch, then its end keyframes
RECURSIVE rib_batches(_, _, _)
rib_batches(ribs, starting_frame, end_frame) ==
    IF ribs = << >> THEN << >>
    ELSE LET n == Min({rib_batch_size, Len(ribs)})
             batch == SubSeq(ribs, 1, n)
         IN [j \in 1 .. n |->
               Insert(batch[j], "location", starting_frame,
                      Val("near_center", 1, 100))]
            \o [j \in 1 .. n |->
                  Insert(batch[j], "location", end_frame, Val("resting", 0, 1))]
            \o rib_batches(SubSeq(ribs, n + 1, Len(ribs)), starting_frame,
                           end_frame)

\* animate_spread without its rib loop
animate_spread_steps_no_ribs(center, sphere, ribs, starting_frame, seconds, radius, r) ==
    \* seconds is frame_length_seconds
    LET end_frame == starting_frame + DurationFrames(seconds, r)
    IN << Insert(center, "location", starting_frame, Val("target", 0, 1)),
          Insert(center, "location", end_frame, Val("offset", 0, 1)),
          [do |-> "create", key |-> KeyV(sphere, "", 0, Val("", 0, 1))],
          Insert(sphere, "scale", starting_frame, Val("scale", 1, 1000)),
          Insert(sphere, "scale", end_frame, Val("scale", 3 * radius, 200)) >>

\* SpiderSpread.animate_spread, steps 1, 2 and 4 (the boolean modifiers of
\* step 3 and the handle types of step 5 key nothing)
animate_spread_steps(center, sphere, ribs, starting_frame, seconds, radius, r) ==
    \* seconds is frame_length_seconds
    LET end_frame == starting_frame + DurationFrames(seconds, r)
    IN << Insert(center, "location", starting_frame, Val("target", 0, 1)),
          Insert(center, "location", end_frame, Val("offset", 0, 1)),
          [do |-> "create", key |-> KeyV(sphere, "", 0, Val("", 0, 1))],
          Insert(sphere, "scale", starting_frame, Val("scale", 1, 1000)),
          Insert(sphere, "scale", end_frame, Val("scale", 3 * radius, 200)) >>
       \o rib_batches(ribs, starting_frame, end_frame)

\* the oscillation keyed whatever tether_slack is
animate_tether_steps_always_slack(tether_obj, c, start_frame, r) ==
    LET end_frame == start_frame + DurationFrames(c.shoot_time, r)
        slack_frames == DurationFrames(slack_duration_seconds, r)
    IN << Clear(tether_obj),
          Insert(tether_obj, "scale", start_frame, Val("length", 0, 1)),
          Insert(tether_obj, "scale", end_frame, Val("length", 1, 1)),
          Insert(tether_obj, "rotation_euler", end_frame, Val("angle", 0, 1)),
          Insert(tether_obj, "rotation_euler",
                 end_frame + slack_frames \div 2,
                 Val("angle", c.tether_slack, 200)),
          Insert(tether_obj, "rotation_euler", end_frame + slack_frames,
                 Val("angle", 0, 1)) >>

\* TetherShot.animate_tether and _animate_tether_slack
animate_tether_steps(tether_obj, c, start_frame, r) ==
    LET end_frame == start_frame + DurationFrames(c.shoot_time, r)
        slack_frames == DurationFrames(slack_duration_seconds, r)
    IN << Clear(tether_obj),
          Insert(tether_obj, "scale", start_frame, Val("length", 0, 1)),
          Insert(tether_obj, "scale", end_frame, Val("length", 1, 1)) >>
       \o (IF ~IsNone(c.tether_slack) /\ c.tether_slack > 0
           THEN << Insert(tether_obj, "rotation_euler", end_frame,
                          Val("angle", 0, 1)),
                   Insert(tether_obj, "rotation_euler",
                          end_frame + slack_frames \div 2,
                          Val("angle", c.tether_slack, 200)),
                   Insert(tether_obj, "rotation_euler",
                          end_frame + slack_frames, Val("angle", 0, 1)) >>
           ELSE << >>)

\* ProjectileShot.animate_shot and _animate_projectile_trail; distance is
\* |target - origin|, trail_mesh is 0 when no trail was created
animate_projectile_steps(shot_mesh, trail_mesh, c, distance, start_frame, r) ==
    LET end_frame == start_frame + DurationFrames(c.shoot_time, r)
        fade_frame == end_frame + DurationFrames(fade_duration, r)
        frame(i) == start_frame + ((end_frame - start_frame) * (i + 1)) \div 6
        \* trail_position - direction * trail_length * 0.5, with
        \* progress = (i + 1) / 6
        location(i) ==
            Val("along", (2 * distance - c.projectile_trail_length) * (i + 1),
                12)
        scale(i) == Val("scale", c.projectile_trail_length * (i + 1), 6)
    IN << Clear(shot_mesh),
          Insert(shot_mesh, "location", start_frame, Val("along", 0, 1)),
          Insert(shot_mesh, "location", end_frame, Val("along", distance, 1)) >>
       \o (IF trail_mesh = 0 THEN << >>
           ELSE << Clear(trail_mesh),
                   Insert(trail_mesh, "scale", start_frame, Val("zero", 0, 1)) >>
                \o [j \in 1 .. 10 |->
                      IF j % 2 = 1
                      THEN Insert(trail_mesh, "location", frame((j - 1) \div 2),
                                  location((j - 1) \div 2))
                      ELSE Insert(trail_mesh, "scale", frame((j - 1) \div 2),
                                  scale((j - 1) \div 2))]
                \o << Insert(trail_mesh, "scale", fade_frame,
                             Val("zero", 0, 1)) >>)

\* most ribs of a web whose spread is animated: more than one batch
MaxRibs == 6

\* the frame rates the methods are called under, down to those at which
\* 0.15 s, or 0.4 s, is one frame or none
ChoreoRender == {[fps |-> f, fps_base |-> 1] : f \in {2, 3, 5, 24}}

\* no call yet; a call records its arguments, its host calls (steps), the
\* one that comes next (pc), and whether it is running, done, or failed
ChoreoIdle ==
    [op |-> "none", seconds |-> 0, start_frame |-> 0, ribs |-> << >>,
     sphere |-> 0, radius |-> 0, tether_slack |-> 0, trail |-> 0,
     distance |-> 0, trail_length |-> 0, steps |-> << >>, pc |-> 1,
     status |-> "idle"]

ChoreoInit ==
    /\ objects = AnimScene
                   \cup {Obj(10 + j, "EMPTY", <<"Web", "Rib">>, <<0, j>>,
                             CenterId, 0, FALSE) : j \in 1 .. MaxRibs}
    /\ nextId = 11 + MaxRibs /\ props = NoProps
    \* nothing keyed yet, or keyframes an earlier animation left on the
    \* shot objects
    /\ keyframes \in {{}, {KeyV(ob, "scale", 99, Val("scale", 1, 1)) :
                             ob \in {TetherId, ProjectileId, TrailId}}}
    /\ rng = 0 /\ nops = 0
    /\ render \in ChoreoRender
    /\ last = ChoreoIdle
    /\ orig = NoProps
    /\ CodecIdle

ChoreoSpread ==
    /\ last.status = "idle"
    /\ \E seconds \in Seconds, start_frame \in StartFrames,
          n \in {MinSpoke * MinRib, MaxRibs} :
         LET ribs == [j \in 1 .. n |-> 10 + j]
         IN last' = [ChoreoIdle EXCEPT
                       !.op = "animate_spread", !.status = "running",
                       !.seconds = seconds, !.start_frame = start_frame,
                       !.ribs = ribs, !.sphere = nextId,
                       !.radius = BasePanel.radius,
                       !.steps = animate_spread_steps(
                                   CenterId, nextId, ribs, start_frame,
                                   seconds, BasePanel.radius, render)]
    /\ UNCHANGED <<objects, nextId, props, keyframes, rng, nops, render, orig,
                   codecVars>>

ChoreoTether ==
    /\ last.status = "idle"
    /\ \E seconds \in Seconds, start_frame \in StartFrames,
          tether_slack \in {NoneVal, 0, 5, 50} :
         last' = [ChoreoIdle EXCEPT
                    !.op = "animate_tether", !.status = "running",
                    !.seconds = seconds, !.start_frame = start_frame,
                    !.tether_slack = tether_slack,
                    !.steps = animate_tether_steps(
                                TetherId,
                                [shoot_time |-> seconds,
                                 tether_slack |-> tether_slack],
                                start_frame, render)]
    /\ UNCHANGED <<objects, nextId, props, keyframes, rng, nops, render, orig,
                   codecVars>>

ChoreoProjectile ==
    /\ last.status = "idle"
    \* distance is |target - origin| in hundredths
    /\ \E seconds \in Seconds, start_frame \in StartFrames,
          with_trail \in BOOLEAN, distance \in {100, 500},
          trail_length \in {0, 10, 100} :
         last' = [ChoreoIdle EXCEPT
                    !.op = "animate_projectile", !.status = "running",
                    !.seconds = seconds, !.start_frame = start_frame,
                    !.trail = IF with_trail THEN TrailId ELSE 0,
                    !.distance = distance, !.trail_length = trail_length,
                    !.steps = animate_projectile_steps(
                                IF with_trail THEN ProjectileId
                                ELSE BareProjectileId,
                                IF with_trail THEN TrailId ELSE 0,
                                [shoot_time |-> seconds,
                                 projectile_trail_length |-> trail_length],
                                distance, start_frame, render)]
    /\ UNCHANGED <<objects, nextId, props, keyframes, rng, nops, render, orig,
                   codecVars>>

\* the next host call of the running method
ChoreoStep ==
    /\ last.status = "running"
    /\ LET s == last.steps[last.pc]
       IN /\ keyframes' =
               CASE s.do = "insert" -> keyframe_insert(keyframes, s.key)
                 [] s.do = "clear" -> animation_data_clear(keyframes, s.key.obj)
                 [] OTHER -> keyframes
          /\ objects' =
               IF s.do = "create"
               THEN objects \cup {Obj(s.key.obj, "MESH",
                                      <<"Web", "Spread", "Sphere">>, NoIdx,
                                      CenterId, 0, FALSE)}
               ELSE objects
          /\ nextId' = IF s.do = "create" THEN nextId + 1 ELSE nextId
    /\ last' = [last EXCEPT
                  !.pc = @ + 1,
                  !.status = IF last.pc = Len(last.steps) THEN "done"
                             ELSE "running"]
    /\ UNCHANGED <<props, rng, nops, render, orig, codecVars>>

\* the next host call raises, or the user cancels: the method is left, the
\* keyframes inserted so far stay
ChoreoFail ==
    /\ last.status = "running"
    /\ last' = [last EXCEPT !.status = "failed"]
    /\ UNCHANGED <<objects, nextId, props, keyframes, rng, nops, render, orig,
                   codecVars>>

ChoreoNext ==
    ChoreoSpread \/ ChoreoTether \/ ChoreoProjectile \/ ChoreoStep \/ ChoreoFail

ChoreoSpec == ChoreoInit /\ [][ChoreoNext]_vars

----------------------------------------------------------------------------
(* Claims about the keyframes of the animation methods (ChoreoSpec)        *)

KeysOf(ob, path) == {k \in keyframes : k.obj = ob /\ k.path = path}

\* the values keyed for ob's path at a frame: none or one
ValuesAt(ob, path, frame) ==
    {k.value : k \in {x \in KeysOf(ob, path) : x.frame = frame}}

\* the first and last frame of the span of the call in progress, and the
\* 0.4 s that follow a shot, in frames
SpanStart == last.start_frame
SpanEnd == last.start_frame + DurationFrames(last.seconds, render)
SlackFrames == DurationFrames(slack_duration_seconds, render)

SpreadDone == last.op = "animate_spread" /\ last.status = "done"

\* the keyframes the spread choreography asks for
SpreadKeyed ==
    /\ ValuesAt(CenterId, "location", SpanStart) = {Val("target", 0, 1)}
    /\ ValuesAt(CenterId, "location", SpanEnd) = {Val("offset", 0, 1)}
    /\ ValuesAt(last.sphere, "scale", SpanStart) = {Val("scale", 1, 1000)}
    /\ ValuesAt(last.sphere, "scale", SpanEnd)
          = {Val("scale", 3 * last.radius, 200)}
    /\ \A j \in DOMAIN last.ribs :
          KeysOf(last.ribs[j], "location")
             = {KeyV(last.ribs[j], "location", SpanStart,
                     Val("near_center", 1, 100)),
                KeyV(last.ribs[j], "location", SpanEnd, Val("resting", 0, 1))}

\* C21 as stated: spread choreography.  After animate_spread the center is
\* keyed at the target at the first frame of the span and at its resting
\* offset at the last, the sphere is keyed 0.001 and 1.5 * radius, and every
\* rib has exactly one keyframe at the first frame (0.01 from the center
\* toward its resting place) and one at the last (its resting place).
C21_SpreadChoreographyAnySpan == SpreadDone => SpreadKeyed

\* C21: the same for a span of at least one frame.
C21_SpreadChoreography ==
    (SpreadDone /\ SpanEnd > SpanStart) => SpreadKeyed

\* a spread of more than one batch of ribs was keyed over a span of one
\* frame or more
C21_Witness ==
    /\ SpreadDone /\ SpanEnd > SpanStart
    /\ Len(last.ribs) > rib_batch_size

\* C22: consistent prefix.  Wherever animate_spread is left, every object
\* it keyed at the first frame of the span is keyed at the last frame too.
C22_ConsistentPrefix ==
    (last.op = "animate_spread" /\ last.status = "failed") =>
       \A k \in keyframes :
          k.frame = SpanStart =>
             \E e \in KeysOf(k.obj, k.path) : e.frame = SpanEnd

TetherDone == last.op = "animate_tether" /\ last.status = "done"

HasSlack == ~IsNone(last.tether_slack) /\ last.tether_slack > 0

\* the keyframes the tether animation asks for
TetherKeyed ==
    /\ ValuesAt(TetherId, "scale", SpanStart) = {Val("length", 0, 1)}
    /\ ValuesAt(TetherId, "scale", SpanEnd) = {Val("length", 1, 1)}
    /\ HasSlack =>
         LET osc == KeysOf(TetherId, "rotation_euler")
             frames == {k.frame : k \in osc}
         IN /\ osc # {}
            /\ Min(frames) = SpanEnd
            /\ \E k \in osc : k.value = Val("angle", last.tether_slack, 200)
            /\ ValuesAt(TetherId, "rotation_euler", Max(frames))
                  = {Val("angle", 0, 1)}
            /\ Max(frames) - SpanEnd = SlackFrames
    /\ ~HasSlack => KeysOf(TetherId, "rotation_euler") = {}

\* C23 as stated: tether animation.  The length is keyed zero at the start
\* frame and full at the shot end frame; with tether_slack > 0 an
\* oscillation starts at the shot end frame, has a keyframe of
\* tether_slack / 2, is back at rest at its last keyframe, and lasts the
\* frames of 0.4 s; with no slack there is no oscillation keyframe.
C23_TetherTimelineAnyRate == TetherDone => TetherKeyed

\* C23: the same when the shot lasts at least one frame and 0.4 s at
\* least one frame.
C23_TetherTimeline ==
    (TetherDone /\ SpanEnd > SpanStart /\ SlackFrames >= 1) => TetherKeyed

\* a tether with slack was animated over a shot of one frame or more, the
\* oscillation peaking at a frame of its own
C23_Witness ==
    /\ TetherDone /\ SpanEnd > SpanStart /\ SlackFrames >= 2
    /\ HasSlack
    /\ Cardinality(KeysOf(TetherId, "rotation_euler")) = 3

ProjectileDone == last.op = "animate_projectile" /\ last.status = "done"

\* the body (the one whose keyframes the last call wrote)
BodyId == IF last.trail # 0 THEN ProjectileId ELSE BareProjectileId

\* the frames of the host calls that key the trail, in the order made
TrailFrames ==
    LET ins == SelectSeq(last.steps,
                         LAMBDA s : s.do = "insert" /\ s.key.obj = last.trail)
    IN [j \in DOMAIN ins |-> ins[j].key.frame]

\* a trail location keyframe is not ahead of the body, which moves linearly
\* from the origin at SpanStart to the target at SpanEnd:
\* num / den <= distance * (frame - SpanStart) / (SpanEnd - SpanStart)
BehindBody(k) ==
    IF SpanEnd = SpanStart THEN k.value.num <= k.value.den * last.distance
    ELSE k.value.num * (SpanEnd - SpanStart)
            <= k.value.den * last.distance * (k.frame - SpanStart)

C24_Body ==
    ProjectileDone =>
       /\ ValuesAt(BodyId, "location", SpanStart) = {Val("along", 0, 1)}
       /\ ValuesAt(BodyId, "location", SpanEnd)
             = {Val("along", last.distance, 1)}

C24_TrailFrames ==
    (ProjectileDone /\ last.trail # 0) =>
       /\ \A i, j \in DOMAIN TrailFrames :
             i <= j => TrailFrames[i] <= TrailFrames[j]
       /\ \A k \in KeysOf(last.trail, "location") :
             SpanStart <= k.frame /\ k.frame <= SpanEnd

C24_TrailBehind ==
    (ProjectileDone /\ last.trail # 0) =>
       \A k \in KeysOf(last.trail, "location") : BehindBody(k)

C24_Fade ==
    (ProjectileDone /\ last.trail # 0) =>
       LET frames == {k.frame : k \in KeysOf(last.trail, "scale")}
       IN /\ Max(frames) > SpanEnd
          /\ ValuesAt(last.trail, "scale", Max(frames)) = {Val("zero", 0, 1)}

\* C24: projectile animation.  The body is keyed at the origin at the start
\* frame and at the target at the shot end frame; the trail's keyframes are
\* made at non-decreasing frames, its location keyframes lie within the
\* shot span and are not ahead of the body at their frame, and its last
\* keyframe is a zero scale strictly after the shot end frame.
C24_ProjectileTimeline ==
    C24_Body /\ C24_TrailFrames /\ C24_TrailBehind /\ C24_Fade

----------------------------------------------------------------------------
(* Claims about the tether path (GeomSpec)                                 *)

\* the control points of the last tether that the sag moved off the
\* straight line from the origin to the web center
Sagging == {i \in DOMAIN last.points : last.points[i].sag_offset # 0}

LastPoint == Max(DOMAIN last.points)

\* C27: the tether path runs from the origin to the web center.  For every
\* tether_slack >= 0 the first control point is at the origin and the last
\* at the web center: the sag moves interior points only.
C27_TetherEndpoints ==
    last.op = "tether" => 0 \notin Sagging /\ LastPoint \notin Sagging

\* without slack the path is the straight line
C27_NoSlackStraight ==
    (last.op = "tether" /\ last.tether_slack = 0) => Sagging = {}

\* with slack the sag is largest at the two ends, and a control point at
\* t = 0.5 is not moved at all
C27_SagAtTheEnds ==
    (last.op = "tether" /\ last.tether_slack > 0) =>
       /\ \A i \in DOMAIN last.points :
             /\ last.points[i].sag_offset <= last.points[0].sag_offset
             /\ last.points[i].sag_offset <= last.points[LastPoint].sag_offset
             /\ 2 * i = LastPoint => i \notin Sagging
       /\ 0 \in Sagging /\ LastPoint \in Sagging

----------------------------------------------------------------------------
(* Claims about a scene with more than one web (PairSpec)                  *)

\* the last call was an update operator that found its three empties
Updated ==
    /\ last.op \in UpdateOps
    /\ last.root # 0 /\ last.origin # 0 /\ last.target # 0

\* C26: a web exclusively owns its anchors.  With two webs in the scene, an
\* update operator works with the WebOrigin and WebTarget of the SpiderWeb
\* empty it picked, and every object it removes or alters belongs to that
\* web.
C26_OwnAnchorsOnly ==
    (Updated /\ Cardinality({o \in objects : IsRoot(o)}) >= 2) =>
       /\ \A o \in objects :
             o.id \in {last.origin, last.target} => o.web = last.root
       /\ \A o \in last.changed : o.web = last.root

=============================================================================
